---- MODULE Spec2Model ----
(***************************************************************************)
(* Model of the elgato4k-linux control library: the HID report transport   *)
(* of the 4K S, the Extension-Unit transport and AT-command framing of the *)
(* 4K X, the setting codec, the status decoders and the facade that        *)
(* dispatches one operation per setting.                                   *)
(*                                                                         *)
(* A session is one open device of a fixed model.  Every operation is      *)
(* synchronous: an action is one complete call of a public (or crate-      *)
(* public) method.  The USB stack is a stub whose answers are drawn when   *)
(* the call starts (env): which transfers fail, which read comes back       *)
(* short, and what the device holds.  log is the list of control transfers *)
(* the call issued, result is what the call returned.                      *)
(***************************************************************************)
EXTENDS Integers, Sequences, FiniteSets, TLC

VARIABLES model, op, env, log, result

vars == <<model, op, env, log, result>>

-----------------------------------------------------------------------------
(* Bounds of the model.                                                    *)

\* at most this many transfers of one call fail
MaxFails == 2
\* longest AT-command input drawn (the length indicator wraps at 122)
MaxInputLen == 123
\* longest arbitrary packet handed to send_hid_two_packet beyond/below 255
MaxPacketSkew == 1
\* most faults (failed transfers, short reads) within one status read
MaxStatusFaults == 1
\* longest command line, in tokens after the program name
MaxCliArgs == 4

-----------------------------------------------------------------------------
(* Protocol constants (protocol.rs, hid.rs).                               *)

HID_REQUEST_TYPE_OUT == 33
HID_REQUEST_TYPE_IN == 161
HID_REQUEST_SET_REPORT == 9
HID_REQUEST_GET_REPORT == 1
HID_REPORT_VALUE_OUTPUT == 518
HID_REPORT_VALUE_INPUT == 262
HID_INTERFACE_NUM == 7
HID_PACKET_SIZE == 255
HID_REPORT_ID == 6
HID_WRITE_HEADER == <<6, 6, 6, 85, 2>>
HID_READ_CMD == 85

SUBCMD_FIRMWARE_VERSION == 2
SUBCMD_AUDIO_INPUT == 8
SUBCMD_HDR_TONEMAPPING == 10
SUBCMD_COLOR_RANGE == 11
SUBCMD_EDID_MODE == 18
SUBCMD_COMMIT == 19
SUBCMD_VIDEO_SCALER == 25

UVC_REQUEST_TYPE_OUT == 33
UVC_REQUEST_TYPE_IN == 161
UVC_SET_CUR == 1
UVC_GET_CUR == 129
UVC_GET_LEN == 133
UVC_INTERFACE == 0
UVC_ENTITY_ID == 4
UVC_SELECTOR_TRIGGER == 2
UVC_SELECTOR_VALUE == 1

UVC_SUBCMD_FIRMWARE_VERSION == 119
AT_CMD_SET_USB_SPEED == 142

BCD_MAX_MONTH == 18
BCD_MAX_DAY == 49

-----------------------------------------------------------------------------
(* Byte arithmetic.                                                        *)

Min(a, b) == IF a < b THEN a ELSE b

\* n zero bytes
Zeros(n) == [i \in 1..n |-> 0]

\* Vec::resize(n, 0): truncate or zero-pad to n bytes
Resize(s, n) == [i \in 1..n |-> IF i <= Len(s) THEN s[i] ELSE 0]

\* the wrapping_add fold over s[lo..hi], evaluated by halves (wrapping
\* addition is associative, so the order of the additions does not matter)
RECURSIVE WrappingSumRange(_, _, _)
WrappingSumRange(s, lo, hi) ==
    IF lo > hi THEN 0
    ELSE IF lo = hi THEN s[lo] % 256
    ELSE LET mid == (lo + hi) \div 2
         IN  (WrappingSumRange(s, lo, mid) + WrappingSumRange(s, mid + 1, hi)) % 256

\* iter().fold(0u8, |acc, b| acc.wrapping_add(b))
WrappingSum(s) == WrappingSumRange(s, 1, Len(s))

\* 0u8.wrapping_sub(sum)
\* the one's complement, in place of the two's complement
OnesComplement(b) == 255 - b

WrappingNeg(b) == (256 - b) % 256

\* a u32 as its two 16-bit halves: the value is hi * 65536 + lo
U32(hi, lo) == [hi |-> hi, lo |-> lo]

\* u32::to_le_bytes
U32LeBytes(c) ==
    <<c.lo % 256, c.lo \div 256, c.hi % 256, c.hi \div 256>>

\* (len as u16).to_le_bytes()
U16LeBytes(n) == <<(n % 65536) % 256, (n % 65536) \div 256>>

\* u16::from_le_bytes
U16FromLe(b) == b[1] + 256 * b[2]

-----------------------------------------------------------------------------
(* Results.                                                                *)

Ok(v) == [ok |-> TRUE, val |-> v]
Err(kind, msg, cause) == [ok |-> FALSE, err |-> [kind |-> kind, msg |-> msg, cause |-> cause]]

\* a function's outcome together with the transfer log after it
Out(l, r) == [log |-> l, res |-> r]

UnsupportedFeature(feature, m) == Err("UnsupportedFeature", feature, m)

-----------------------------------------------------------------------------
(* The USB stack (rusb write_control / read_control) and the device.       *)
(* env.fail: the transfers of this call (by position, 1-based) that end in *)
(* a transport error; env.short: the read that returns one byte less than  *)
(* the device holds (0: none); env.dev: what the device holds.             *)

Sleep(ms) ==
    [dir |-> "sleep", rt |-> 0, rq |-> 0, wValue |-> 0, wIndex |-> 0,
     data |-> <<>>, len |-> ms, ok |-> TRUE, ret |-> <<>>]

IsTransfer(x) == x.dir # "sleep"

\* the control transfers of a log, in issue order, without the delays
Transfers(l) == SelectSeq(l, IsTransfer)

\* position of the next transfer within the call
NextTransfer(l) == Len(Transfers(l)) + 1

\* thread::sleep(d)
sleep(l, ms) == Append(l, Sleep(ms))

\* handle.write_control(request_type, request, value, index, data, timeout)
write_control(e, l, rt, rq, wValue, wIndex, data) ==
    LET n == NextTransfer(l)
        failed == n \in e.fail
        x == [dir |-> "out", rt |-> rt, rq |-> rq, wValue |-> wValue,
              wIndex |-> wIndex, data |-> data, len |-> Len(data),
              ok |-> ~failed, ret |-> <<>>]
    IN  Out(Append(l, x),
            IF failed THEN [ok |-> FALSE, cause |-> n]
                      ELSE [ok |-> TRUE, val |-> Len(data)])

\* the bytes the device has ready for a device-to-host request
DeviceAnswer(e, rq, wValue, wIndex) ==
    IF wIndex = HID_INTERFACE_NUM THEN e.dev.hidResp
    ELSE IF rq = UVC_GET_LEN
         THEN U16LeBytes(IF wValue \div 256 = UVC_SELECTOR_TRIGGER
                         THEN e.dev.trigLen ELSE e.dev.devLen)
    ELSE IF wValue \div 256 = UVC_SELECTOR_TRIGGER THEN Zeros(e.dev.trigLen)
    ELSE e.dev.resp

\* handle.read_control(request_type, request, value, index, &mut buf, timeout):
\* val is the number of bytes read, buf the buffer afterwards
read_control(e, l, rt, rq, wValue, wIndex, buf) ==
    LET n == NextTransfer(l)
        failed == n \in e.fail
        full == DeviceAnswer(e, rq, wValue, wIndex)
        have == IF n = e.short /\ Len(full) > 0
                THEN SubSeq(full, 1, Len(full) - 1) ELSE full
        got == SubSeq(have, 1, Min(Len(have), Len(buf)))
        x == [dir |-> "in", rt |-> rt, rq |-> rq, wValue |-> wValue,
              wIndex |-> wIndex, data |-> buf, len |-> Len(buf),
              ok |-> ~failed, ret |-> IF failed THEN <<>> ELSE got]
    IN  Out(Append(l, x),
            IF failed THEN [ok |-> FALSE, cause |-> n]
            ELSE [ok |-> TRUE, val |-> Len(got),
                  buf |-> [i \in 1..Len(buf) |->
                              IF i <= Len(got) THEN got[i] ELSE buf[i]]])

-----------------------------------------------------------------------------
(* HID transport of the 4K S (hid.rs).                                     *)

\* a single-packet write without the size validation
send_hid_packet_unvalidated(e, l, packet) ==
    LET Sent(w) == IF w.res.ok THEN Out(w.log, Ok(<<>>))
                   ELSE Out(w.log, Err("Message", "Failed to send HID packet", w.res.cause))
    IN  Sent(write_control(e, l, HID_REQUEST_TYPE_OUT, HID_REQUEST_SET_REPORT,
                           HID_REPORT_VALUE_OUTPUT, HID_INTERFACE_NUM, packet))

send_hid_packet(e, l, packet) ==
    LET Sent(w) == IF w.res.ok THEN Out(w.log, Ok(<<>>))
                   ELSE Out(w.log, Err("Message", "Failed to send HID packet", w.res.cause))
    IN  IF Len(packet) # HID_PACKET_SIZE
        THEN Out(l, Err("Message", "HID packet must be exactly 255 bytes", 0))
        ELSE Sent(write_control(e, l, HID_REQUEST_TYPE_OUT, HID_REQUEST_SET_REPORT,
                                HID_REPORT_VALUE_OUTPUT, HID_INTERFACE_NUM, packet))

\* a two-packet write that sends the second packet whatever the first did
send_hid_two_packet_unchecked(e, l, pkt1, pkt2) ==
    send_hid_packet(e, sleep(send_hid_packet(e, l, pkt1).log, 1), pkt2)

send_hid_two_packet(e, l, pkt1, pkt2) ==
    LET Second(a) == IF ~a.res.ok THEN a
                     ELSE send_hid_packet(e, sleep(a.log, 1), pkt2)
    IN  Second(send_hid_packet(e, l, pkt1))

\* a read that asks for the response without waiting for the device
read_hid_data_unpaced(e, l, cmd, sub_cmd, data_len) ==
    LET request == Resize(<<HID_REPORT_ID, cmd, sub_cmd, data_len>>, HID_PACKET_SIZE)
        buf == [i \in 1..HID_PACKET_SIZE |-> IF i = 1 THEN HID_REPORT_ID ELSE 0]
        Data(r) ==
            IF ~r.res.ok
            THEN Out(r.log, Err("Message", "Failed to read HID response", r.res.cause))
            ELSE IF r.res.val > 1
            THEN Out(r.log, Ok(SubSeq(r.res.buf, 2, r.res.val)))
            ELSE Out(r.log, Ok(<<>>))
        Requested(w) ==
            IF ~w.res.ok
            THEN Out(w.log, Err("Message", "Failed to send HID read request", w.res.cause))
            ELSE Data(read_control(e, w.log, HID_REQUEST_TYPE_IN,
                                   HID_REQUEST_GET_REPORT, HID_REPORT_VALUE_INPUT,
                                   HID_INTERFACE_NUM, buf))
    IN  Requested(write_control(e, l, HID_REQUEST_TYPE_OUT, HID_REQUEST_SET_REPORT,
                                HID_REPORT_VALUE_OUTPUT, HID_INTERFACE_NUM, request))

\* a read that hands back the report-identifier byte with the data
read_hid_data_with_id(e, l, cmd, sub_cmd, data_len) ==
    LET request == Resize(<<HID_REPORT_ID, cmd, sub_cmd, data_len>>, HID_PACKET_SIZE)
        buf == [i \in 1..HID_PACKET_SIZE |-> IF i = 1 THEN HID_REPORT_ID ELSE 0]
        Data(r) ==
            IF ~r.res.ok
            THEN Out(r.log, Err("Message", "Failed to read HID response", r.res.cause))
            ELSE Out(r.log, Ok(SubSeq(r.res.buf, 1, r.res.val)))
        Requested(w) ==
            IF ~w.res.ok
            THEN Out(w.log, Err("Message", "Failed to send HID read request", w.res.cause))
            ELSE Data(read_control(e, sleep(w.log, 10), HID_REQUEST_TYPE_IN,
                                   HID_REQUEST_GET_REPORT, HID_REPORT_VALUE_INPUT,
                                   HID_INTERFACE_NUM, buf))
    IN  Requested(write_control(e, l, HID_REQUEST_TYPE_OUT, HID_REQUEST_SET_REPORT,
                                HID_REPORT_VALUE_OUTPUT, HID_INTERFACE_NUM, request))

read_hid_data(e, l, cmd, sub_cmd, data_len) ==
    LET request == Resize(<<HID_REPORT_ID, cmd, sub_cmd, data_len>>, HID_PACKET_SIZE)
        buf == [i \in 1..HID_PACKET_SIZE |-> IF i = 1 THEN HID_REPORT_ID ELSE 0]
        Data(r) ==
            IF ~r.res.ok
            THEN Out(r.log, Err("Message", "Failed to read HID response", r.res.cause))
            ELSE IF r.res.val > 1
            THEN Out(r.log, Ok(SubSeq(r.res.buf, 2, r.res.val)))
            ELSE Out(r.log, Ok(<<>>))
        Requested(w) ==
            IF ~w.res.ok
            THEN Out(w.log, Err("Message", "Failed to send HID read request", w.res.cause))
            ELSE Data(read_control(e, sleep(w.log, 10), HID_REQUEST_TYPE_IN,
                                   HID_REQUEST_GET_REPORT, HID_REPORT_VALUE_INPUT,
                                   HID_INTERFACE_NUM, buf))
    IN  Requested(write_control(e, l, HID_REQUEST_TYPE_OUT, HID_REQUEST_SET_REPORT,
                                HID_REPORT_VALUE_OUTPUT, HID_INTERFACE_NUM, request))

-----------------------------------------------------------------------------
(* Extension-Unit transport of the 4K X (uvc.rs).                          *)

UvcValue(selector) == selector * 256
UvcIndex == UVC_ENTITY_ID * 256 + UVC_INTERFACE

send_uvc_trigger_data(e, l, data) ==
    LET Sent(w) == IF w.res.ok THEN Out(w.log, Ok(<<>>))
                   ELSE Out(w.log, Err("UvcTransfer", "trigger SET_CUR failed", w.res.cause))
    IN  Sent(write_control(e, l, UVC_REQUEST_TYPE_OUT, UVC_SET_CUR,
                           UvcValue(UVC_SELECTOR_TRIGGER), UvcIndex, data))

\* a payload write that is issued once more after it failed
send_uvc_payload_retrying(e, l, payload) ==
    LET Sent(w) == IF w.res.ok THEN Out(w.log, Ok(<<>>))
                   ELSE Out(w.log, Err("UvcTransfer", "payload SET_CUR failed", w.res.cause))
        Again(w) == IF w.res.ok THEN Out(w.log, Ok(<<>>))
                    ELSE Sent(write_control(e, w.log, UVC_REQUEST_TYPE_OUT, UVC_SET_CUR,
                                            UvcValue(UVC_SELECTOR_VALUE), UvcIndex, payload))
    IN  Again(write_control(e, l, UVC_REQUEST_TYPE_OUT, UVC_SET_CUR,
                            UvcValue(UVC_SELECTOR_VALUE), UvcIndex, payload))

send_uvc_payload(e, l, payload) ==
    LET Sent(w) == IF w.res.ok THEN Out(w.log, Ok(<<>>))
                   ELSE Out(w.log, Err("UvcTransfer", "payload SET_CUR failed", w.res.cause))
    IN  Sent(write_control(e, l, UVC_REQUEST_TYPE_OUT, UVC_SET_CUR,
                           UvcValue(UVC_SELECTOR_VALUE), UvcIndex, payload))

\* a two-step write that sends the payload whatever the trigger write did
set_uvc_setting_unchecked(e, l, payload) ==
    send_uvc_payload(e, send_uvc_trigger_data(e, l, U16LeBytes(Len(payload))).log,
                     payload)

set_uvc_setting(e, l, payload) ==
    LET Payload(t) == IF ~t.res.ok THEN t ELSE send_uvc_payload(e, t.log, payload)
    IN  Payload(send_uvc_trigger_data(e, l, U16LeBytes(Len(payload))))

get_uvc_len(e, l, selector) ==
    LET Length(r) ==
            IF ~r.res.ok
            THEN Out(r.log, Err("UvcTransfer", "GET_LEN failed", r.res.cause))
            ELSE IF r.res.val < 2
            THEN Out(r.log, Err("UvcTransfer", "GET_LEN returned short", Len(Transfers(r.log))))
            ELSE Out(r.log, Ok(U16FromLe(r.res.buf)))
    IN  Length(read_control(e, l, UVC_REQUEST_TYPE_IN, UVC_GET_LEN,
                            UvcValue(selector), UvcIndex, Zeros(2)))

read_uvc_raw(e, l, length) ==
    LET Truncated(r) ==
            IF ~r.res.ok
            THEN Out(r.log, Err("UvcTransfer", "GET_CUR failed", r.res.cause))
            ELSE Out(r.log, Ok(SubSeq(r.res.buf, 1, r.res.val)))
    IN  Truncated(read_control(e, l, UVC_REQUEST_TYPE_IN, UVC_GET_CUR,
                               UvcValue(UVC_SELECTOR_VALUE), UvcIndex, Zeros(length)))

read_uvc_setting(e, l) ==
    LET Read(n) == IF ~n.res.ok THEN n ELSE read_uvc_raw(e, n.log, n.res.val)
    IN  Read(get_uvc_len(e, l, UVC_SELECTOR_VALUE))

poll_uvc_status(e, l) ==
    LET Truncated(r) ==
            IF ~r.res.ok
            THEN Out(r.log, Err("UvcTransfer", "status GET_CUR failed", r.res.cause))
            ELSE Out(r.log, Ok(SubSeq(r.res.buf, 1, r.res.val)))
        Read(n) ==
            IF ~n.res.ok THEN n
            ELSE Truncated(read_control(e, n.log, UVC_REQUEST_TYPE_IN, UVC_GET_CUR,
                                        UvcValue(UVC_SELECTOR_TRIGGER), UvcIndex,
                                        Zeros(n.res.val)))
    IN  Read(get_uvc_len(e, l, UVC_SELECTOR_TRIGGER))

\* a probe that propagates the failure of the trigger-status poll
probe_uvc_setting_strict(e, l, probe) ==
    LET Read(q) == IF ~q.res.ok THEN q ELSE read_uvc_setting(e, q.log)
        Poll(s) == IF ~s.res.ok THEN s ELSE Read(poll_uvc_status(e, s.log))
    IN  Poll(set_uvc_setting(e, l, probe))

\* a probe that reads the value selector without polling the trigger selector
probe_uvc_setting_unpolled(e, l, probe) ==
    LET Read(s) == IF ~s.res.ok THEN s ELSE read_uvc_setting(e, s.log)
    IN  Read(set_uvc_setting(e, l, probe))

\* "let _ = self.poll_uvc_status();": the poll's result is dropped
probe_uvc_setting(e, l, probe) ==
    LET Read(s) == IF ~s.res.ok THEN s
                   ELSE read_uvc_setting(e, poll_uvc_status(e, s.log).log)
    IN  Read(set_uvc_setting(e, l, probe))

\* the length indicator without the 7-bit mask
LengthIndicatorUnmasked(n) == n + 2

\* length_indicator = ((data.len() + 2) & 0x7f) as u8
LengthIndicator(n) == (n + 2) % 128

\* the frame send_at_command builds
at_frame(cmd_id, input) ==
    LET data == U32LeBytes(cmd_id) \o input
        head == <<161, LengthIndicator(Len(data)), 0, 0>> \o data
    IN  Append(head, WrappingNeg(WrappingSum(head)))

\* a probe frame built without the leading tag byte
at_probe06_untagged(sub_cmd) ==
    LET head == <<6, 0, 0, sub_cmd, 0, 0, 0>>
    IN  Append(head, WrappingNeg(WrappingSum(head)))

\* the probe read_at_command builds
at_probe06(sub_cmd) ==
    LET head == <<161, 6, 0, 0, sub_cmd, 0, 0, 0>>
    IN  Append(head, WrappingNeg(WrappingSum(head)))

\* a family-07 probe that keeps the length indicator of the family-06 probe
at_probe07_indicator06(sub_cmd, param) ==
    LET head == <<161, 6, 0, 0, sub_cmd, 0, 0, 0, param>>
    IN  Append(head, WrappingNeg(WrappingSum(head)))

\* the probe read_at_command_family07 builds
at_probe07(sub_cmd, param) ==
    LET head == <<161, 7, 0, 0, sub_cmd, 0, 0, 0, param>>
    IN  Append(head, WrappingNeg(WrappingSum(head)))

send_at_command(m, e, l, cmd_id, input) ==
    IF m # "4KX" THEN Out(l, UnsupportedFeature("AT commands", "4K S"))
    ELSE probe_uvc_setting(e, l, at_frame(cmd_id, input))

read_at_command(m, e, l, sub_cmd) ==
    IF m # "4KX" THEN Out(l, UnsupportedFeature("AT commands", "4K S"))
    ELSE probe_uvc_setting(e, l, at_probe06(sub_cmd))

read_at_command_family07(m, e, l, sub_cmd, param) ==
    IF m # "4KX" THEN Out(l, UnsupportedFeature("AT commands", "4K S"))
    ELSE probe_uvc_setting(e, l, at_probe07(sub_cmd, param))

-----------------------------------------------------------------------------
(* Setting codec (settings.rs).                                            *)

EdidRangePolicyValues == {"Expand", "Shrink", "Auto"}
EdidSourceValues == {"Display", "Merged", "Internal"}
HdrToneMappingValues == {"On", "Off"}
CustomEdidModeValues == {"Off", "On"}
AudioInputValues == {"Embedded", "Analog"}
VideoScalerValues == {"On", "Off"}
UsbSpeedValues == {"FiveGbps", "TenGbps"}

\* a write packet with the value byte and the sub-command in each other's place
hid_write_packet_swapped(sub_cmd, value) ==
    Resize(HID_WRITE_HEADER \o <<value, sub_cmd>>, HID_PACKET_SIZE)

hid_write_packet(sub_cmd, value) ==
    [i \in 1..HID_PACKET_SIZE |->
        IF i <= Len(HID_WRITE_HEADER) THEN HID_WRITE_HEADER[i]
        ELSE IF i = Len(HID_WRITE_HEADER) + 1 THEN sub_cmd
        ELSE IF i = Len(HID_WRITE_HEADER) + 2 THEN value
        ELSE 0]

EdidRangePolicy_payload_4kx(v) ==
    CASE v = "Auto"   -> <<161, 8, 0, 0, 124, 0, 0, 0, 1, 0, 218>>
      [] v = "Expand" -> <<161, 8, 0, 0, 124, 0, 0, 0, 1, 3, 215>>
      [] v = "Shrink" -> <<161, 8, 0, 0, 124, 0, 0, 0, 1, 4, 214>>

EdidRangePolicy_payload_4ks(v) ==
    hid_write_packet(SUBCMD_COLOR_RANGE,
        CASE v = "Auto" -> 0 [] v = "Expand" -> 1 [] v = "Shrink" -> 2)

EdidSource_payload_4kx(v) ==
    CASE v = "Display"  -> <<161, 10, 0, 0, 77, 0, 0, 0, 1, 0, 0, 0, 7>>
      [] v = "Merged"   -> <<161, 10, 0, 0, 77, 0, 0, 0, 4, 0, 0, 0, 4>>
      [] v = "Internal" -> <<161, 10, 0, 0, 77, 0, 0, 0, 0, 0, 0, 0, 8>>

EdidSource_payload_4ks(v) ==
    hid_write_packet(SUBCMD_EDID_MODE,
        CASE v = "Merged" -> 0 [] v = "Display" -> 1 [] v = "Internal" -> 2)

\* HDR payloads where On carries the checksum byte of Off
HdrToneMapping_payload_4kx_stale(v) ==
    CASE v = "On"  -> <<161, 7, 0, 0, 31, 0, 0, 0, 1, 57>>
      [] v = "Off" -> <<161, 7, 0, 0, 31, 0, 0, 0, 0, 57>>

HdrToneMapping_payload_4kx(v) ==
    CASE v = "On"  -> <<161, 7, 0, 0, 31, 0, 0, 0, 1, 56>>
      [] v = "Off" -> <<161, 7, 0, 0, 31, 0, 0, 0, 0, 57>>

HdrToneMapping_payload_4ks(v) ==
    hid_write_packet(SUBCMD_HDR_TONEMAPPING, CASE v = "On" -> 1 [] v = "Off" -> 0)

CustomEdidMode_payload_4kx(v) ==
    CASE v = "Off" -> <<161, 10, 0, 0, 84, 0, 0, 0, 0, 0, 128, 0, 129>>
      [] v = "On"  -> <<161, 10, 0, 0, 84, 0, 0, 0, 0, 1, 128, 0, 128>>

AudioInput_payload_4ks(v) ==
    hid_write_packet(SUBCMD_AUDIO_INPUT, CASE v = "Embedded" -> 0 [] v = "Analog" -> 1)

VideoScaler_payload_4ks(v) ==
    hid_write_packet(SUBCMD_VIDEO_SCALER, CASE v = "On" -> 1 [] v = "Off" -> 0)

UsbSpeed_at_input(v) ==
    CASE v = "FiveGbps" -> <<1, 0, 0, 0, 0, 0, 0, 0>>
      [] v = "TenGbps"  -> <<1, 0, 0, 0, 3, 0, 0, 0>>

\* the second packet of a two-packet write: "06 06 06 55 02 13 01", zero-padded
commit_packet == Resize(<<6, 6, 6, 85, 2, 19, 1>>, HID_PACKET_SIZE)

\* the pair in the other order: commit packet first
payload_4ks_pair_swapped(pkt1) == <<commit_packet, pkt1>>

\* the (pkt1, pkt2) pair the facade destructures: settings packet, commit packet
payload_4ks_pair(pkt1) == <<pkt1, commit_packet>>

-----------------------------------------------------------------------------
(* Status decoding (status.rs).                                            *)

Known(v) == [tag |-> "Known", val |-> v]
Unknown(b) == [tag |-> "Unknown", byte |-> b]
None == [tag |-> "None"]
Some(x) == [tag |-> "Some", some |-> x]

decode_hdr(v) ==
    IF v = 1 THEN Known("On") ELSE IF v = 0 THEN Known("Off") ELSE Unknown(v)

\* a decoder that falls back to a default value for an unmapped byte
decode_color_range_default(v) ==
    IF v = 1 THEN Known("Expand")
    ELSE IF v = 2 THEN Known("Shrink")
    ELSE Known("Auto")

decode_color_range(v) ==
    IF v = 0 THEN Known("Auto")
    ELSE IF v = 1 THEN Known("Expand")
    ELSE IF v = 2 THEN Known("Shrink")
    ELSE Unknown(v)

decode_edid_mode(v) ==
    IF v = 0 THEN Known("Merged")
    ELSE IF v = 1 THEN Known("Display")
    ELSE IF v = 2 THEN Known("Internal")
    ELSE Unknown(v)

decode_audio_input(v) ==
    IF v = 0 \/ v = 1 THEN Known("Embedded")
    ELSE IF v = 3 THEN Known("Analog")
    ELSE Unknown(v)

decode_video_scaler(v) ==
    IF v = 1 THEN Known("On") ELSE IF v = 0 THEN Known("Off") ELSE Unknown(v)

\* the 4K S setting families that have a single-byte status decoder
HidFamilies == {"hdr", "color_range", "edid_mode", "audio_input", "video_scaler"}

HidFamilyValues(f) ==
    CASE f = "hdr" -> HdrToneMappingValues
      [] f = "color_range" -> EdidRangePolicyValues
      [] f = "edid_mode" -> EdidSourceValues
      [] f = "audio_input" -> AudioInputValues
      [] f = "video_scaler" -> VideoScalerValues

\* payload_4ks of the family's setting type
payload_4ks(f, v) ==
    CASE f = "hdr" -> HdrToneMapping_payload_4ks(v)
      [] f = "color_range" -> EdidRangePolicy_payload_4ks(v)
      [] f = "edid_mode" -> EdidSource_payload_4ks(v)
      [] f = "audio_input" -> AudioInput_payload_4ks(v)
      [] f = "video_scaler" -> VideoScaler_payload_4ks(v)

\* the decoder read_status_4ks pairs with the family
decode_4ks(f, b) ==
    CASE f = "hdr" -> decode_hdr(b)
      [] f = "color_range" -> decode_color_range(b)
      [] f = "edid_mode" -> decode_edid_mode(b)
      [] f = "audio_input" -> decode_audio_input(b)
      [] f = "video_scaler" -> decode_video_scaler(b)

\* a panic (slice index out of bounds) unwinding out of the call
Panic(msg) == Err("Panic", msg, 0)

\* format!("{:02x}", b): the two hex digits of a byte
Hex2(b) == <<b \div 16, b % 16>>

\* format_firmware_version_4ks: data[3], data[4], data[5] are read before any
\* check, so a response shorter than 6 bytes panics
format_firmware_version_4ks(data) ==
    IF Len(data) < 6 THEN Panic("index out of bounds")
    ELSE LET yy == data[4]
             mm == data[5]
             dd == data[6]
         IN  IF yy = 0 /\ mm = 0 /\ dd = 0
             THEN Ok([kind |-> "unknown"])
             ELSE IF mm >= 1 /\ mm <= BCD_MAX_MONTH /\ dd >= 1 /\ dd <= BCD_MAX_DAY
             THEN Ok([kind |-> "version", text |-> Hex2(yy) \o Hex2(mm) \o Hex2(dd)])
             ELSE Ok([kind |-> "raw", bytes |-> SubSeq(data, 1, Min(8, Len(data)))])

-----------------------------------------------------------------------------
(* Control facade (device.rs).                                             *)

set_hdmi_range(m, e, l, range) ==
    IF m = "4KX" THEN set_uvc_setting(e, l, EdidRangePolicy_payload_4kx(range))
    ELSE LET p == payload_4ks_pair(EdidRangePolicy_payload_4ks(range))
         IN  send_hid_two_packet(e, l, p[1], p[2])

set_edid_source(m, e, l, source) ==
    IF m = "4KX" THEN set_uvc_setting(e, l, EdidSource_payload_4kx(source))
    ELSE send_hid_packet(e, l, EdidSource_payload_4ks(source))

set_hdr_mapping(m, e, l, mode) ==
    IF m = "4KX" THEN set_uvc_setting(e, l, HdrToneMapping_payload_4kx(mode))
    ELSE LET p == payload_4ks_pair(HdrToneMapping_payload_4ks(mode))
         IN  send_hid_two_packet(e, l, p[1], p[2])

\* set_custom_edid without the model check
set_custom_edid_unguarded(m, e, l, mode) ==
    set_uvc_setting(e, l, CustomEdidMode_payload_4kx(mode))

set_custom_edid(m, e, l, mode) ==
    IF m # "4KX" THEN Out(l, UnsupportedFeature("Custom EDID", "4K S"))
    ELSE set_uvc_setting(e, l, CustomEdidMode_payload_4kx(mode))

set_audio_input(m, e, l, input) ==
    IF m # "4KS" THEN Out(l, UnsupportedFeature("Audio input selection", "4K X"))
    ELSE LET p == payload_4ks_pair(AudioInput_payload_4ks(input))
         IN  send_hid_two_packet(e, l, p[1], p[2])

\* set_video_scaler without the model check
set_video_scaler_unguarded(m, e, l, scaler) ==
    LET p == payload_4ks_pair(VideoScaler_payload_4ks(scaler))
    IN  send_hid_two_packet(e, l, p[1], p[2])

set_video_scaler(m, e, l, scaler) ==
    IF m # "4KS" THEN Out(l, UnsupportedFeature("Video scaler", "4K X"))
    ELSE LET p == payload_4ks_pair(VideoScaler_payload_4ks(scaler))
         IN  send_hid_two_packet(e, l, p[1], p[2])

set_usb_speed(m, e, l, speed) ==
    IF m # "4KX" THEN Out(l, UnsupportedFeature("USB speed switching", "4K S"))
    ELSE send_at_command(m, e, l, U32(0, AT_CMD_SET_USB_SPEED), UsbSpeed_at_input(speed))

-----------------------------------------------------------------------------
(* Status reading (status.rs).                                             *)

\* family bytes of the 4K X status responses
UVC_FAMILY_COLOR_RANGE == 6
UVC_FAMILY_HDR == 7
UVC_FAMILY_EDID_RANGE == 8
UVC_FAMILY_EDID_SOURCE == 10

\* u32::from_le_bytes of data[0..4], then the YYMMDD split; the value is kept
\* as two 16-bit halves and divided by 100 in long division
format_firmware_version_4kx(data) ==
    LET lo == data[1] + 256 * data[2]
        hi == data[3] + 256 * data[4]
        rest == (hi % 100) * 65536 + lo
        hundreds == (hi \div 100) * 65536 + rest \div 100
        yy == hundreds \div 100
        mm == hundreds % 100
        dd == rest % 100
    IN  IF hi = 0 /\ lo = 0
        THEN [kind |-> "unknown"]
        ELSE IF mm >= 1 /\ mm <= 12 /\ dd >= 1 /\ dd <= 31
        THEN [kind |-> "version", yy |-> yy, mm |-> mm, dd |-> dd]
        ELSE [kind |-> "raw", bytes |-> SubSeq(data, 1, Min(16, Len(data)))]

\* read_firmware_version: a failed or short read becomes text, never an error.
\* The 4K X probe is the a1 06 read of sub-command 0x77.
\* a firmware read that hands the error of a failed read to its caller
read_firmware_version_strict(m, e, l) ==
    LET Text4kx(r) ==
            IF r.res.ok /\ Len(r.res.val) >= 4
            THEN Out(r.log, Ok(format_firmware_version_4kx(r.res.val)))
            ELSE IF r.res.ok
            THEN Out(r.log, Ok([kind |-> "unexpected", bytes |-> r.res.val]))
            ELSE r
        Text4ks(r) ==
            IF r.res.ok /\ Len(r.res.val) >= 5
            THEN Out(r.log, format_firmware_version_4ks(r.res.val))
            ELSE IF r.res.ok
            THEN Out(r.log, Ok([kind |-> "unexpected", bytes |-> r.res.val]))
            ELSE r
    IN  IF m = "4KX"
        THEN Text4kx(read_at_command(m, e, l, UVC_SUBCMD_FIRMWARE_VERSION))
        ELSE Text4ks(read_hid_data(e, l, HID_READ_CMD, SUBCMD_FIRMWARE_VERSION, 8))

read_firmware_version(m, e, l) ==
    LET Text4kx(r) ==
            IF r.res.ok /\ Len(r.res.val) >= 4
            THEN Out(r.log, Ok(format_firmware_version_4kx(r.res.val)))
            ELSE IF r.res.ok
            THEN Out(r.log, Ok([kind |-> "unexpected", bytes |-> r.res.val]))
            ELSE Out(r.log, Ok([kind |-> "failed", err |-> r.res.err]))
        Text4ks(r) ==
            IF r.res.ok /\ Len(r.res.val) >= 5
            THEN Out(r.log, format_firmware_version_4ks(r.res.val))
            ELSE IF r.res.ok
            THEN Out(r.log, Ok([kind |-> "unexpected", bytes |-> r.res.val]))
            ELSE Out(r.log, Ok([kind |-> "failed", err |-> r.res.err]))
    IN  IF m = "4KX"
        THEN Text4kx(read_at_command(m, e, l, UVC_SUBCMD_FIRMWARE_VERSION))
        ELSE Text4ks(read_hid_data(e, l, HID_READ_CMD, SUBCMD_FIRMWARE_VERSION, 8))

\* decode names the decoder function handed in
read_hid_typed(e, l, sub_cmd, decode) ==
    LET Typed(r) == IF r.res.ok /\ Len(r.res.val) > 0
                    THEN Out(r.log, Some(decode_4ks(decode, r.res.val[1])))
                    ELSE Out(r.log, None)
    IN  Typed(read_hid_data(e, l, HID_READ_CMD, sub_cmd, 1))

\* read_uvc_setting(length), the form status.rs calls: one GET_CUR of the
\* value selector with a buffer of the given length
read_uvc_setting_length(e, l, length) ==
    LET Truncated(r) ==
            IF ~r.res.ok
            THEN Out(r.log, Err("Message", "Failed to read setting", r.res.cause))
            ELSE Out(r.log, Ok(SubSeq(r.res.buf, 1, r.res.val)))
    IN  Truncated(read_control(e, l, UVC_REQUEST_TYPE_IN, UVC_GET_CUR,
                               UvcValue(UVC_SELECTOR_VALUE), UvcIndex, Zeros(length)))

\* the sub-command read_usb_speed_4kx probes is a constant whose definition
\* is not part of the sources at hand: the environment supplies it
read_usb_speed_4kx(m, e, l) ==
    LET Speed(v) == IF v = 0 THEN Known("FiveGbps")
                    ELSE IF v = 1 THEN Known("TenGbps")
                    ELSE Unknown(v)
        Typed(r) == IF r.res.ok /\ Len(r.res.val) > 4
                    THEN Out(r.log, Some(Speed(r.res.val[5])))
                    ELSE Out(r.log, None)
    IN  Typed(read_at_command(m, e, l, e.at_cmd_get_usb_speed))

decode_uvc_color_range(data) ==
    IF Len(data) < 9 \/ data[1] # 161 \/ data[2] # UVC_FAMILY_COLOR_RANGE
    THEN None
    ELSE Some(IF data[5] = 67 THEN Known("Expand")
              ELSE IF data[5] = 43 THEN Known("Shrink")
              ELSE IF data[5] = 55 THEN Known("Auto")
              ELSE Unknown(data[5]))

\* an HDR decoder that does not look at the type byte
decode_uvc_hdr_lenient(data) ==
    IF Len(data) < 10 \/ data[1] # 161 \/ data[2] # UVC_FAMILY_HDR
    THEN None
    ELSE Some(IF data[9] = 1 THEN Known("On")
              ELSE IF data[9] = 0 THEN Known("Off")
              ELSE Unknown(data[9]))

decode_uvc_hdr(data) ==
    IF Len(data) < 10 \/ data[1] # 161 \/ data[2] # UVC_FAMILY_HDR \/ data[5] # 31
    THEN None
    ELSE Some(IF data[9] = 1 THEN Known("On")
              ELSE IF data[9] = 0 THEN Known("Off")
              ELSE Unknown(data[9]))

\* an EDID range decoder that reads the value at offset 8, where the HDR
\* and EDID source layouts have it
decode_uvc_edid_range_offset8(data) ==
    IF Len(data) < 11 \/ data[1] # 161 \/ data[2] # UVC_FAMILY_EDID_RANGE
       \/ data[5] # 124
    THEN None
    ELSE Some(IF data[9] = 0 THEN Known("Auto")
              ELSE IF data[9] = 3 THEN Known("Expand")
              ELSE IF data[9] = 4 THEN Known("Shrink")
              ELSE Unknown(data[9]))

decode_uvc_edid_range(data) ==
    IF Len(data) < 11 \/ data[1] # 161 \/ data[2] # UVC_FAMILY_EDID_RANGE
       \/ data[5] # 124
    THEN None
    ELSE Some(IF data[10] = 0 THEN Known("Auto")
              ELSE IF data[10] = 3 THEN Known("Expand")
              ELSE IF data[10] = 4 THEN Known("Shrink")
              ELSE Unknown(data[10]))

\* the decoder read_status_4kx pairs with a field
decode_uvc(f, data) ==
    CASE f = "color_range" -> decode_uvc_color_range(data)
      [] f = "hdr" -> decode_uvc_hdr(data)
      [] f = "edid_range" -> decode_uvc_edid_range(data)

\* decode names the decoder function handed in
read_uvc_typed(e, l, length, decode) ==
    LET Typed(r) == IF r.res.ok THEN Out(r.log, decode_uvc(decode, r.res.val))
                    ELSE Out(r.log, None)
    IN  Typed(read_uvc_setting_length(e, l, length))

\* an EDID decoder that fills both components from any well-headed response
decode_uvc_edid_source_both(data) ==
    IF Len(data) < 13 \/ data[1] # 161 \/ data[2] # UVC_FAMILY_EDID_SOURCE
    THEN <<None, None>>
    ELSE <<Some(IF data[9] = 1 THEN Known("Display")
                ELSE IF data[9] = 4 THEN Known("Merged")
                ELSE IF data[9] = 0 THEN Known("Internal")
                ELSE Unknown(data[9])),
           Some(IF data[10] = 0 THEN [tag |-> "Off"]
                ELSE [tag |-> "On", preset_index |-> data[10]])>>

\* the (edid_source, custom_edid) pair
decode_uvc_edid_source(data) ==
    IF Len(data) < 13 \/ data[1] # 161 \/ data[2] # UVC_FAMILY_EDID_SOURCE
    THEN <<None, None>>
    ELSE IF data[5] = 77
    THEN <<Some(IF data[9] = 1 THEN Known("Display")
                ELSE IF data[9] = 4 THEN Known("Merged")
                ELSE IF data[9] = 0 THEN Known("Internal")
                ELSE Unknown(data[9])),
           None>>
    ELSE IF data[5] = 84
    THEN <<None,
           Some(IF data[10] = 0 THEN [tag |-> "Off"]
                ELSE [tag |-> "On", preset_index |-> data[10]])>>
    ELSE <<None, None>>

\* a 4K S status read that files the EDID mode under custom_edid as well
read_status_4ks_misfiled(m, e, l) ==
    LET Status(fw, hdr, color, edid, audio, scaler) ==
            Out(scaler.log,
                Ok([firmware_version |-> fw.res.val,
                    usb_speed |-> None,
                    hdr_tone_mapping |-> hdr.res,
                    hdmi_color_range |-> color.res,
                    edid_source |-> edid.res,
                    edid_range_policy |-> None,
                    custom_edid |-> edid.res,
                    audio_input |-> audio.res,
                    video_scaler |-> scaler.res]))
        Scaler(fw, hdr, color, edid, audio) ==
            Status(fw, hdr, color, edid, audio,
                   read_hid_typed(e, audio.log, SUBCMD_VIDEO_SCALER, "video_scaler"))
        Audio(fw, hdr, color, edid) ==
            Scaler(fw, hdr, color, edid,
                   read_hid_typed(e, edid.log, SUBCMD_AUDIO_INPUT, "audio_input"))
        Edid(fw, hdr, color) ==
            Audio(fw, hdr, color,
                  read_hid_typed(e, color.log, SUBCMD_EDID_MODE, "edid_mode"))
        Color(fw, hdr) ==
            Edid(fw, hdr,
                 read_hid_typed(e, hdr.log, SUBCMD_COLOR_RANGE, "color_range"))
        Hdr(fw) ==
            IF ~fw.res.ok THEN fw
            ELSE Color(fw, read_hid_typed(e, fw.log, SUBCMD_HDR_TONEMAPPING, "hdr"))
    IN  Hdr(read_firmware_version(m, e, l))

read_status_4ks(m, e, l) ==
    LET Status(fw, hdr, color, edid, audio, scaler) ==
            Out(scaler.log,
                Ok([firmware_version |-> fw.res.val,
                    usb_speed |-> None,
                    hdr_tone_mapping |-> hdr.res,
                    hdmi_color_range |-> color.res,
                    edid_source |-> edid.res,
                    edid_range_policy |-> None,
                    custom_edid |-> None,
                    audio_input |-> audio.res,
                    video_scaler |-> scaler.res]))
        Scaler(fw, hdr, color, edid, audio) ==
            Status(fw, hdr, color, edid, audio,
                   read_hid_typed(e, audio.log, SUBCMD_VIDEO_SCALER, "video_scaler"))
        Audio(fw, hdr, color, edid) ==
            Scaler(fw, hdr, color, edid,
                   read_hid_typed(e, edid.log, SUBCMD_AUDIO_INPUT, "audio_input"))
        Edid(fw, hdr, color) ==
            Audio(fw, hdr, color,
                  read_hid_typed(e, color.log, SUBCMD_EDID_MODE, "edid_mode"))
        Color(fw, hdr) ==
            Edid(fw, hdr,
                 read_hid_typed(e, hdr.log, SUBCMD_COLOR_RANGE, "color_range"))
        Hdr(fw) ==
            IF ~fw.res.ok THEN fw
            ELSE Color(fw, read_hid_typed(e, fw.log, SUBCMD_HDR_TONEMAPPING, "hdr"))
    IN  Hdr(read_firmware_version(m, e, l))

read_status_4kx(m, e, l) ==
    LET Pair(src) == IF src.res.ok THEN decode_uvc_edid_source(src.res.val)
                     ELSE <<None, None>>
        Status(fw, speed, pair, color, hdr, range) ==
            Out(range.log,
                Ok([firmware_version |-> fw.res.val,
                    usb_speed |-> speed.res,
                    hdmi_color_range |-> color.res,
                    hdr_tone_mapping |-> hdr.res,
                    edid_range_policy |-> range.res,
                    edid_source |-> pair[1],
                    custom_edid |-> pair[2],
                    audio_input |-> None,
                    video_scaler |-> None]))
        Range(fw, speed, pair, color, hdr) ==
            Status(fw, speed, pair, color, hdr,
                   read_uvc_typed(e, hdr.log, 11, "edid_range"))
        Hdr(fw, speed, pair, color) ==
            Range(fw, speed, pair, color,
                  read_uvc_typed(e, color.log, 10, "hdr"))
        Color(fw, speed, src) ==
            Hdr(fw, speed, Pair(src),
                read_uvc_typed(e, src.log, 9, "color_range"))
        Source(fw, speed) ==
            Color(fw, speed, read_uvc_setting_length(e, speed.log, 13))
        Speed(fw) ==
            IF ~fw.res.ok THEN fw
            ELSE Source(fw, read_usb_speed_4kx(m, e, fw.log))
    IN  Speed(read_firmware_version(m, e, l))

read_status(m, e, l) ==
    IF m = "4KX" THEN read_status_4kx(m, e, l) ELSE read_status_4ks(m, e, l)

-----------------------------------------------------------------------------
(* The command-line tool (main.rs): its own device functions and main.     *)
(* Names that main.rs shares with the library carry the prefix cli_.       *)

\* s.to_lowercase(), on the tokens drawn for the command line
to_lowercase(s) ==
    CASE s = "Auto" -> "auto"
      [] s = "ON" -> "on"
      [] OTHER -> s

HdmiColorRange_from_str(s) ==
    LET Match(t) ==
            CASE t \in {"expand", "full"} -> Some("Expand")
              [] t \in {"shrink", "limited"} -> Some("Shrink")
              [] t = "auto" -> Some("Auto")
              [] OTHER -> None
    IN  Match(to_lowercase(s))

CustomEdidMode_from_str(s) ==
    LET Match(t) ==
            CASE t \in {"on", "true", "1"} -> Some("On")
              [] t \in {"off", "false", "0"} -> Some("Off")
              [] OTHER -> None
    IN  Match(to_lowercase(s))

HdmiColorRange_payload_4kx(v) ==
    CASE v = "Auto" -> <<161, 8, 0, 0, 124, 0, 0, 0, 1, 0, 218>>
      [] v = "Expand" -> <<161, 8, 0, 0, 124, 0, 0, 0, 1, 3, 215>>
      [] v = "Shrink" -> <<161, 8, 0, 0, 124, 0, 0, 0, 1, 4, 214>>

HdmiColorRange_payload_4ks(v) ==
    << Resize(<<6, 6, 6, 85, 2, 11,
                CASE v = "Auto" -> 0 [] v = "Expand" -> 1 [] v = "Shrink" -> 2>>,
              HID_PACKET_SIZE),
       Resize(<<6, 6, 6, 85, 2, 19, 1>>, HID_PACKET_SIZE) >>

cli_CustomEdidMode_payload_4kx(v) ==
    CASE v = "Off" -> <<161, 10, 0, 0, 84, 0, 0, 0, 0, 0, 128, 0, 129>>
      [] v = "On" -> <<161, 10, 0, 0, 84, 0, 0, 0, 0, 1, 128, 0, 128>>

\* ElgatoDevice::open(): the bus scan finds a device or does not
open(m, e) ==
    IF e.present THEN Ok(m)
    ELSE Err("Message", "Elgato 4K X or 4K S not found. Make sure it's connected.", 0)

send_uvc_trigger(e, l) ==
    LET Sent(w) == IF w.res.ok THEN Out(w.log, Ok(<<>>))
                   ELSE Out(w.log, Err("Message", "Failed to send UVC trigger", w.res.cause))
    IN  Sent(write_control(e, l, 33, 1, UVC_SELECTOR_TRIGGER * 256,
                           UVC_ENTITY_ID * 256 + UVC_INTERFACE, <<9, 0>>))

cli_send_uvc_payload(e, l, payload) ==
    LET Sent(w) == IF w.res.ok THEN Out(w.log, Ok(<<>>))
                   ELSE Out(w.log, Err("Message", "Failed to send UVC payload", w.res.cause))
    IN  Sent(write_control(e, l, 33, 1, UVC_SELECTOR_VALUE * 256,
                           UVC_ENTITY_ID * 256 + UVC_INTERFACE, payload))

cli_set_uvc_setting(e, l, payload) ==
    LET Payload(t) == IF ~t.res.ok THEN t ELSE cli_send_uvc_payload(e, t.log, payload)
    IN  Payload(send_uvc_trigger(e, l))

cli_send_hid_packet(e, l, packet) ==
    LET Sent(w) == IF w.res.ok THEN Out(w.log, Ok(<<>>))
                   ELSE Out(w.log, Err("Message", "Failed to send HID packet", w.res.cause))
    IN  IF Len(packet) # HID_PACKET_SIZE
        THEN Out(l, Err("Message", "HID packet must be exactly 255 bytes", 0))
        ELSE Sent(write_control(e, l, 33, 9, 518, HID_INTERFACE_NUM, packet))

cli_send_hid_two_packet(e, l, pkt1, pkt2) ==
    LET Second(a) == IF ~a.res.ok THEN a
                     ELSE cli_send_hid_packet(e, sleep(a.log, 1), pkt2)
    IN  Second(cli_send_hid_packet(e, l, pkt1))

\* get_status: six reads of the value selector on the 4K X, whose outcomes
\* are only printed; a notice on the 4K S
get_status(m, e, l) ==
    LET Read(k, len) == read_uvc_setting_length(e, k, len).log
    IN  IF m = "4KX"
        THEN Out(Read(Read(Read(Read(Read(Read(l, 9), 10), 11), 13), 16), 32), Ok(<<>>))
        ELSE Out(l, Ok(<<>>))

set_hdmi_color_range(m, e, l, range) ==
    IF m = "4KX" THEN cli_set_uvc_setting(e, l, HdmiColorRange_payload_4kx(range))
    ELSE LET Send(p) == cli_send_hid_two_packet(e, l, p[1], p[2])
         IN  Send(HdmiColorRange_payload_4ks(range))

cli_set_custom_edid(m, e, l, mode) ==
    IF m = "4KX" THEN cli_set_uvc_setting(e, l, cli_CustomEdidMode_payload_4kx(mode))
    ELSE Out(l, Err("Message", "Custom EDID not supported on 4K S", 0))

\* how main ended: usage printed, open() called, get_status called, the
\* setter calls made in order, and the exit status (ok)
Exit(ok, usage, opened, status, calls, msg) ==
    [ok |-> ok,
     val |-> [usage |-> usage, opened |-> opened, status |-> status, calls |-> calls],
     err |-> [kind |-> "Message", msg |-> msg, cause |-> 0]]

SetterCall(option, value, ok) == [option |-> option, value |-> value, ok |-> ok]

\* the while loop of main from index i on. The arms of --edid-source and
\* --hdr-map have the shape of the two arms kept here and are left out
\* together with their tokens.
RECURSIVE main_loop(_, _, _, _, _, _)
main_loop(m, e, args, i, l, calls) ==
    IF i > Len(args) THEN Out(l, Exit(TRUE, FALSE, TRUE, FALSE, calls, ""))
    ELSE IF i + 1 > Len(args)
    THEN Out(l, Exit(FALSE, FALSE, TRUE, FALSE, calls, "Missing argument value"))
    ELSE
    LET arg == args[i]
        Invalid == Out(l, Exit(FALSE, FALSE, TRUE, FALSE, calls, "Invalid argument"))
        Applied(v, r) ==
            IF ~r.res.ok
            THEN Out(r.log, Exit(FALSE, FALSE, TRUE, FALSE,
                                 Append(calls, SetterCall(arg, v, FALSE)),
                                 r.res.err.msg))
            ELSE main_loop(m, e, args, i + 2, sleep(r.log, 100),
                           Append(calls, SetterCall(arg, v, TRUE)))
        HdmiRange(v) ==
            IF v = None THEN Invalid
            ELSE Applied(v.some, set_hdmi_color_range(m, e, l, v.some))
        CustomEdid(v) ==
            IF v = None THEN Invalid
            ELSE Applied(v.some, cli_set_custom_edid(m, e, l, v.some))
    IN  CASE arg = "--hdmi-range" -> HdmiRange(HdmiColorRange_from_str(args[i + 1]))
          [] arg = "--custom-edid" -> CustomEdid(CustomEdidMode_from_str(args[i + 1]))
          [] OTHER -> Out(l, Exit(FALSE, TRUE, TRUE, FALSE, calls, "Invalid argument"))

\* the tokens of a command line, without the program name
Tokens(args) == {args[k] : k \in DOMAIN args}

\* main that opens the device before it looks for the help flag
main_open_first(m, e, args) ==
    LET Opened(d) ==
            IF ~d.ok
            THEN Out(<<>>, Exit(FALSE, FALSE, TRUE, FALSE, <<>>, d.err.msg))
            ELSE IF Len(args) < 1 \/ "--help" \in Tokens(args) \/ "-h" \in Tokens(args)
            THEN Out(<<>>, Exit(TRUE, TRUE, TRUE, FALSE, <<>>, ""))
            ELSE main_loop(d.val, e, args, 1, <<>>, <<>>)
    IN  Opened(open(m, e))

\* main without the --status branch ahead of the loop
main_settings_first(m, e, args) ==
    LET Opened(d) ==
            IF ~d.ok
            THEN Out(<<>>, Exit(FALSE, FALSE, TRUE, FALSE, <<>>, d.err.msg))
            ELSE main_loop(d.val, e, args, 1, <<>>, <<>>)
    IN  IF Len(args) < 1 \/ "--help" \in Tokens(args) \/ "-h" \in Tokens(args)
        THEN Out(<<>>, Exit(TRUE, TRUE, FALSE, FALSE, <<>>, ""))
        ELSE Opened(open(m, e))

main(m, e, args) ==
    LET Status(s) == Out(s.log, Exit(TRUE, FALSE, TRUE, TRUE, <<>>, ""))
        Opened(d) ==
            IF ~d.ok
            THEN Out(<<>>, Exit(FALSE, FALSE, TRUE, FALSE, <<>>, d.err.msg))
            ELSE IF "--status" \in Tokens(args)
            THEN Status(get_status(d.val, e, <<>>))
            ELSE main_loop(d.val, e, args, 1, <<>>, <<>>)
    IN  IF Len(args) < 1 \/ "--help" \in Tokens(args) \/ "-h" \in Tokens(args)
        THEN Out(<<>>, Exit(TRUE, TRUE, FALSE, FALSE, <<>>, ""))
        ELSE Opened(open(m, e))

-----------------------------------------------------------------------------
(* Environments drawn for a call.                                          *)

\* what a device may hold in its Extension-Unit value register
XuResponses ==
    { <<>>,
      <<161, 10, 0, 0, 77, 0, 0, 0, 1, 0, 0, 0, 7>>,
      <<161, 7, 0, 0, 31, 0, 0, 0, 1, 56>>,
      <<98, 209, 3, 0, 1>> }

\* what a device may answer to GET_REPORT (report id first)
HidResponses ==
    { <<>>, <<6>>, <<6, 1>>, <<6, 0, 0, 0, 37, 2>>,
      <<6, 0, 0, 0, 37, 2, 16, 0, 0>> }

Devices(m) ==
    IF m = "4KX"
    THEN {[devLen |-> d, trigLen |-> 2, resp |-> r, hidResp |-> <<>>] :
              r \in XuResponses, d \in {4, 13}}
    ELSE {[devLen |-> 0, trigLen |-> 0, resp |-> <<>>, hidResp |-> h] :
              h \in HidResponses}

NoDevice == [devLen |-> 0, trigLen |-> 0, resp |-> <<>>, hidResp |-> <<>>]

\* the sets of failing transfers of a call of at most n transfers
FailSets(n) == {f \in SUBSET (1..n) : Cardinality(f) <= MaxFails}

\* environments of a call that only writes
WriteEnvs(n) == {[fail |-> f, short |-> 0, dev |-> NoDevice] : f \in FailSets(n)}

\* environments of a call that also reads
ReadEnvs(m, n) ==
    {[fail |-> f, short |-> s, dev |-> d] :
        f \in FailSets(n), s \in 0..n, d \in Devices(m)}

\* candidate values of the USB-speed read sub-command
UsbSpeedCmds == {142, 143}

\* environments of a status read: at most MaxStatusFaults faults per call,
\* a fault being a failed transfer or a short read
StatusEnvs(m, n) ==
    {[fail |-> e.fail, short |-> e.short, dev |-> e.dev,
      at_cmd_get_usb_speed |-> c] :
        e \in {x \in ReadEnvs(m, n) :
                  Cardinality(x.fail) + (IF x.short = 0 THEN 0 ELSE 1)
                      <= MaxStatusFaults},
        c \in UsbSpeedCmds}

NoEnv == [fail |-> {}, short |-> 0, dev |-> NoDevice]

-----------------------------------------------------------------------------
(* The session.                                                            *)

Idle == [name |-> "idle", arg |-> <<>>]

Init ==
    /\ model \in {"4KX", "4KS"}
    /\ op = Idle
    /\ env = NoEnv
    /\ log = <<>>
    /\ result = Ok(<<>>)

\* one complete call on the idle session: its arguments, its environment,
\* the transfers it issued and what it returned
Call(name, arg, e, out) ==
    /\ op' = [name |-> name, arg |-> arg]
    /\ env' = e
    /\ log' = out.log
    /\ result' = out.res
    /\ UNCHANGED model

\* the caller has taken the result; the session is ready for the next call
Return ==
    /\ op.name # Idle.name
    /\ op' = Idle
    /\ env' = NoEnv
    /\ log' = <<>>
    /\ result' = Ok(<<>>)
    /\ UNCHANGED model

SetHdmiRange ==
    /\ op.name = Idle.name
    /\ \E v \in EdidRangePolicyValues, e \in WriteEnvs(2) :
            Call("set_hdmi_range", v, e, set_hdmi_range(model, e, <<>>, v))

SetEdidSource ==
    /\ op.name = Idle.name
    /\ \E v \in EdidSourceValues, e \in WriteEnvs(2) :
            Call("set_edid_source", v, e, set_edid_source(model, e, <<>>, v))

SetHdrMapping ==
    /\ op.name = Idle.name
    /\ \E v \in HdrToneMappingValues, e \in WriteEnvs(2) :
            Call("set_hdr_mapping", v, e, set_hdr_mapping(model, e, <<>>, v))

SetCustomEdid ==
    /\ op.name = Idle.name
    /\ \E v \in CustomEdidModeValues, e \in WriteEnvs(2) :
            Call("set_custom_edid", v, e, set_custom_edid(model, e, <<>>, v))

SetAudioInput ==
    /\ op.name = Idle.name
    /\ \E v \in AudioInputValues, e \in WriteEnvs(2) :
            Call("set_audio_input", v, e, set_audio_input(model, e, <<>>, v))

SetVideoScaler ==
    /\ op.name = Idle.name
    /\ \E v \in VideoScalerValues, e \in WriteEnvs(2) :
            Call("set_video_scaler", v, e, set_video_scaler(model, e, <<>>, v))

SetUsbSpeed ==
    /\ op.name = Idle.name
    /\ \E v \in UsbSpeedValues, e \in ReadEnvs(model, 6) :
            Call("set_usb_speed", v, e, set_usb_speed(model, e, <<>>, v))

\* packets handed to send_hid_two_packet: well-sized ones and ones off by up
\* to MaxPacketSkew bytes
SamplePackets ==
    {Resize(<<6, 6, 6, 85, 2, 11, 1>>, n) :
        n \in (HID_PACKET_SIZE - MaxPacketSkew)..(HID_PACKET_SIZE + MaxPacketSkew)}
    \cup {commit_packet}

SendHidTwoPacket ==
    /\ op.name = Idle.name
    /\ model = "4KS"
    /\ \E p1 \in SamplePackets, p2 \in SamplePackets, e \in WriteEnvs(2) :
            Call("send_hid_two_packet", <<p1, p2>>, e,
                 send_hid_two_packet(e, <<>>, p1, p2))

\* command ids and inputs of AT commands
CmdIds ==
    {U32(0, 0), U32(0, 142), U32(258, 772), U32(32768, 0), U32(65535, 65535)}
FillBytes == {0, 255}
AtInputs ==
    {[i \in 1..n |-> b] : n \in 0..MaxInputLen, b \in FillBytes}
    \cup {UsbSpeed_at_input(v) : v \in UsbSpeedValues}
    \cup {<<1, 2, 3>>, <<128, 127>>}
SubCmds == {0, 119, 144, 145, 255}
Params == {0, 1, 95, 255}

\* the framing step of send_at_command on its own, over every input length
BuildAtFrame ==
    /\ op.name = Idle.name
    /\ \E c \in CmdIds, i \in AtInputs :
            Call("at_frame", <<c, i>>, NoEnv, Out(<<>>, Ok(at_frame(c, i))))

\* the probe framing of read_at_command on its own, over every sub-command
BuildAtProbe06 ==
    /\ op.name = Idle.name
    /\ \E sc \in 0..255 :
            Call("at_probe06", <<sc>>, NoEnv, Out(<<>>, Ok(at_probe06(sc))))

\* the probe framing of read_at_command_family07 on its own
BuildAtProbe07 ==
    /\ op.name = Idle.name
    /\ \E sc \in 0..255, pa \in Params :
            Call("at_probe07", <<sc, pa>>, NoEnv, Out(<<>>, Ok(at_probe07(sc, pa))))

\* the setting codec of the 4K S: payload_4ks of one setting value
Payload4ks ==
    /\ op.name = Idle.name
    /\ \E f \in HidFamilies :
        \E v \in HidFamilyValues(f) :
            Call("payload_4ks", <<f, v>>, NoEnv, Out(<<>>, Ok(payload_4ks(f, v))))

\* firmware responses of the 4K S: 6 to 8 bytes, version bytes at offsets 3..5
FirmwareYears == {0, 37, 153}
FirmwareMonths == (0..32) \cup {153, 255}
FirmwareDays == (0..64) \cup {153, 255}
FirmwareResponses ==
    {SubSeq(<<0, 0, 0, yy, mm, dd, 0, 0>>, 1, n) :
        yy \in FirmwareYears, mm \in FirmwareMonths, dd \in FirmwareDays, n \in {6, 8}}

FormatFirmwareVersion4ks ==
    /\ op.name = Idle.name
    /\ \E d \in FirmwareResponses :
            Call("format_firmware_version_4ks", d, NoEnv,
                 Out(<<>>, format_firmware_version_4ks(d)))

SendAtCommand ==
    /\ op.name = Idle.name
    /\ \E c \in {U32(0, 142), U32(65535, 65535)}, i \in {<<>>, <<1, 2, 3>>},
          e \in ReadEnvs(model, 6) :
            Call("send_at_command", <<c, i>>, e, send_at_command(model, e, <<>>, c, i))

ReadAtCommand ==
    /\ op.name = Idle.name
    /\ \E sc \in SubCmds, e \in ReadEnvs(model, 6) :
            Call("read_at_command", <<sc>>, e, read_at_command(model, e, <<>>, sc))

ReadAtCommandFamily07 ==
    /\ op.name = Idle.name
    /\ \E sc \in {145, 255}, pa \in Params, e \in ReadEnvs(model, 6) :
            Call("read_at_command_family07", <<sc, pa>>, e,
                 read_at_command_family07(model, e, <<>>, sc, pa))

\* read_firmware_version: one probe on the 4K X, one HID read on the 4K S
ReadFirmwareVersion ==
    /\ op.name = Idle.name
    /\ \E e \in ReadEnvs(model, IF model = "4KX" THEN 6 ELSE 2) :
            Call("read_firmware_version", <<>>, e,
                 read_firmware_version(model, e, <<>>))

\* read_status: 16 transfers at most on the 4K X, 12 on the 4K S
ReadStatus ==
    /\ op.name = Idle.name
    /\ \E e \in StatusEnvs(model, IF model = "4KX" THEN 16 ELSE 12) :
            Call("read_status", <<>>, e, read_status(model, e, <<>>))

\* payloads handed to set_uvc_setting: empty, the setting payloads, and one
\* longer than 255 bytes (both length bytes of the trigger in use)
UvcPayloads ==
    {<<>>, <<161>>, Zeros(300)}
    \cup {EdidRangePolicy_payload_4kx(v) : v \in EdidRangePolicyValues}
    \cup {EdidSource_payload_4kx(v) : v \in EdidSourceValues}

SetUvcSetting ==
    /\ op.name = Idle.name
    /\ model = "4KX"
    /\ \E p \in UvcPayloads, e \in WriteEnvs(2) :
            Call("set_uvc_setting", p, e, set_uvc_setting(e, <<>>, p))

SendHidPacket ==
    /\ op.name = Idle.name
    /\ model = "4KS"
    /\ \E p \in SamplePackets \cup {<<>>, <<6>>}, e \in WriteEnvs(1) :
            Call("send_hid_packet", p, e, send_hid_packet(e, <<>>, p))

\* what a device may answer to GET_REPORT, up to and beyond the report size
HidReadResponses ==
    HidResponses
    \cup {<<9, 7>>}
    \cup {[i \in 1..n |-> IF i = 1 THEN 6 ELSE i % 256] :
              n \in (HID_PACKET_SIZE - 1)..(HID_PACKET_SIZE + 1)}

ReadHidData ==
    /\ op.name = Idle.name
    /\ model = "4KS"
    /\ \E sc \in {SUBCMD_FIRMWARE_VERSION, SUBCMD_AUDIO_INPUT}, n \in {1, 8},
          f \in FailSets(2), sh \in 0..2, h \in HidReadResponses :
            LET e == [fail |-> f, short |-> sh,
                      dev |-> [devLen |-> 0, trigLen |-> 0, resp |-> <<>>,
                               hidResp |-> h]]
            IN  Call("read_hid_data", <<HID_READ_CMD, sc, n>>, e,
                     read_hid_data(e, <<>>, HID_READ_CMD, sc, n))

\* a 4K S single-byte status decoder on every byte
DecodeHid ==
    /\ op.name = Idle.name
    /\ \E f \in HidFamilies, b \in 0..255 :
            Call("decode_4ks", <<f, b>>, NoEnv, Out(<<>>, Ok(decode_4ks(f, b))))

\* 4K X responses handed to the decoders: every length around the layouts,
\* right and wrong first byte, family tag and type byte
UvcHeads == {161, 178}
UvcFamilyTags == {0, 6, 7, 8, 10}
UvcTypeBytes == {0, 31, 43, 55, 67, 77, 84, 124}
UvcValueBytes == {0, 1, 3, 4, 9}
UvcLengths == {0, 4, 8, 9, 10, 11, 12, 13}
UvcDecodeResponses ==
    {SubSeq(<<h, fam, 0, 0, t, 0, 0, 0, v, w, 128, 0, 7>>, 1, n) :
        h \in UvcHeads, fam \in UvcFamilyTags, t \in UvcTypeBytes,
        v \in UvcValueBytes, w \in UvcValueBytes, n \in UvcLengths}

UvcDecoders == {"color_range", "hdr", "edid_range"}

DecodeUvc ==
    /\ op.name = Idle.name
    /\ \E f \in UvcDecoders, d \in UvcDecodeResponses :
            Call("decode_uvc", <<f, d>>, NoEnv, Out(<<>>, Ok(decode_uvc(f, d))))

DecodeUvcEdidSource ==
    /\ op.name = Idle.name
    /\ \E d \in UvcDecodeResponses :
            Call("decode_uvc_edid_source", d, NoEnv,
                 Out(<<>>, Ok(decode_uvc_edid_source(d))))

\* the setting codec of the 4K X: payload_4kx of one setting value
UvcFamilies == {"edid_range", "edid_source", "hdr", "custom_edid"}

UvcFamilyValues(f) ==
    CASE f = "edid_range" -> EdidRangePolicyValues
      [] f = "edid_source" -> EdidSourceValues
      [] f = "hdr" -> HdrToneMappingValues
      [] f = "custom_edid" -> CustomEdidModeValues

payload_4kx(f, v) ==
    CASE f = "edid_range" -> EdidRangePolicy_payload_4kx(v)
      [] f = "edid_source" -> EdidSource_payload_4kx(v)
      [] f = "hdr" -> HdrToneMapping_payload_4kx(v)
      [] f = "custom_edid" -> CustomEdidMode_payload_4kx(v)

Payload4kx ==
    /\ op.name = Idle.name
    /\ \E f \in UvcFamilies :
        \E v \in UvcFamilyValues(f) :
            Call("payload_4kx", <<f, v>>, NoEnv, Out(<<>>, Ok(payload_4kx(f, v))))

\* command lines: every sequence of at most MaxCliArgs of these tokens
CliTokens ==
    {"--help", "-h", "--status", "--hdmi-range", "--custom-edid", "ON", "Auto"}

CliArgs == UNION {[1..n -> CliTokens] : n \in 0..MaxCliArgs}

\* environments of a run of the tool: the device is on the bus or not; at
\* most one of the first four transfers fails
CliEnvs(m, args) ==
    {[fail |-> {}, short |-> 0, dev |-> NoDevice, present |-> FALSE]}
    \cup {[fail |-> f, short |-> 0, dev |-> d, present |-> TRUE] :
             f \in {{}} \cup {{k} : k \in 1..4},
             d \in IF "--status" \in Tokens(args) /\ "-h" \notin Tokens(args)
                      /\ "--help" \notin Tokens(args)
                   THEN Devices(m) ELSE {NoDevice}}

\* one run of the command-line tool
Main ==
    /\ op.name = Idle.name
    /\ \E a \in CliArgs :
        \E e \in CliEnvs(model, a) :
            Call("main", a, e, main(model, e, a))

Next ==
    \/ SetHdmiRange
    \/ SetEdidSource
    \/ SetHdrMapping
    \/ SetCustomEdid
    \/ SetAudioInput
    \/ SetVideoScaler
    \/ SetUsbSpeed
    \/ SendHidTwoPacket
    \/ BuildAtFrame
    \/ BuildAtProbe06
    \/ BuildAtProbe07
    \/ Payload4ks
    \/ FormatFirmwareVersion4ks
    \/ SendAtCommand
    \/ ReadAtCommand
    \/ ReadAtCommandFamily07
    \/ ReadFirmwareVersion
    \/ ReadStatus
    \/ SetUvcSetting
    \/ SendHidPacket
    \/ ReadHidData
    \/ DecodeHid
    \/ DecodeUvc
    \/ DecodeUvcEdidSource
    \/ Payload4kx
    \/ Main
    \/ Return

Spec == Init /\ [][Next]_vars

-----------------------------------------------------------------------------
(* Properties.                                                             *)

T == Transfers(log)

IsSetCur(x, selector) ==
    /\ x.dir = "out" /\ x.rt = 33 /\ x.rq = 1
    /\ x.wValue = selector * 256 /\ x.wIndex = 1024

IsGetLen(x, selector) ==
    /\ x.dir = "in" /\ x.rt = 161 /\ x.rq = 133
    /\ x.wValue = selector * 256 /\ x.wIndex = 1024

IsGetCur(x, selector) ==
    /\ x.dir = "in" /\ x.rt = 161 /\ x.rq = 129
    /\ x.wValue = selector * 256 /\ x.wIndex = 1024

IsSetReport(x) ==
    /\ x.dir = "out" /\ x.rt = 33 /\ x.rq = 9
    /\ x.wValue = 518 /\ x.wIndex = 7

\* the calls that run the Extension-Unit probe sequence on a 4K X
ProbeCall ==
    /\ model = "4KX"
    /\ op.name \in {"set_usb_speed", "send_at_command", "read_at_command",
                    "read_at_command_family07"}

\* a GET_LEN that the stack completed but that brought fewer than 2 bytes
ShortGetLen(x) == x.rq = 133 /\ x.wIndex = 1024 /\ x.ok /\ Len(x.ret) < 2

\* C1: set_custom_edid and set_usb_speed on a 4K S session, and
\* set_audio_input and set_video_scaler on a 4K X session, return the
\* UnsupportedFeature error and issue no transfer at all, whatever the value.
C1_UnsupportedIssuesNothing ==
    (\/ model = "4KS" /\ op.name \in {"set_custom_edid", "set_usb_speed"}
     \/ model = "4KX" /\ op.name \in {"set_audio_input", "set_video_scaler"})
    => /\ ~result.ok
       /\ result.err.kind = "UnsupportedFeature"
       /\ log = <<>>

C1_Witness ==
    /\ model = "4KS" /\ op.name = "set_usb_speed" /\ op.arg = "TenGbps"
    /\ env.fail = {} /\ ~result.ok

\* C2: in send_hid_two_packet, when the transfer of the first packet fails the
\* second packet is never submitted and the call returns the first packet's
\* failure; the call returns success only when both packets were submitted
\* successfully, the first before the second.
C2_TwoPacketStopsAtFirstFailure ==
    op.name = "send_hid_two_packet" =>
        /\ (Len(T) >= 1 /\ ~T[1].ok) =>
              /\ Len(T) = 1
              /\ ~result.ok
              /\ result.err.msg = "Failed to send HID packet"
              /\ result.err.cause = 1
        /\ result.ok =>
              /\ Len(T) = 2
              /\ IsSetReport(T[1]) /\ T[1].ok /\ T[1].data = op.arg[1]
              /\ IsSetReport(T[2]) /\ T[2].ok /\ T[2].data = op.arg[2]

C2_Witness ==
    /\ op.name = "send_hid_two_packet"
    /\ Len(op.arg[1]) = 255 /\ Len(op.arg[2]) = 255
    /\ 1 \in env.fail /\ Len(T) = 1 /\ ~result.ok

\* the sub-command id of each two-packet setting of the 4K S
TwoPacketSubCmd(name) ==
    CASE name = "set_hdmi_range" -> 11
      [] name = "set_hdr_mapping" -> 10
      [] name = "set_audio_input" -> 8
      [] name = "set_video_scaler" -> 25

TwoPacketSetter ==
    /\ model = "4KS"
    /\ op.name \in {"set_hdmi_range", "set_hdr_mapping", "set_audio_input",
                    "set_video_scaler"}

IsPollStep(x) == IsGetLen(x, 2) \/ IsGetCur(x, 2)

\* C5 as stated: in the probe sequence a transport failure at any step -
\* trigger write, payload write, trigger-status poll, value GET_LEN, value
\* GET_CUR - aborts the probe: no later step is issued and the probe returns
\* that step's error.
C5_AnyFailureAborts ==
    ProbeCall =>
        \A i \in DOMAIN T :
            ~T[i].ok => /\ i = Len(T)
                        /\ ~result.ok
                        /\ result.err.kind = "UvcTransfer"
                        /\ result.err.cause = i

\* C5 amended: a transport failure at the trigger write, the payload write,
\* the value GET_LEN or the value GET_CUR aborts the probe with that step's
\* error; a transport failure inside the trigger-status poll ends only the
\* poll, its error is dropped and the probe goes on with the value GET_LEN.
C5_FailureAbortsExceptPoll ==
    ProbeCall =>
        \A i \in DOMAIN T :
            ~T[i].ok =>
                IF IsPollStep(T[i])
                THEN /\ i < Len(T)
                     /\ IsGetLen(T[i + 1], 1)
                     /\ result.ok \/ result.err.cause # i
                ELSE /\ i = Len(T)
                     /\ ~result.ok
                     /\ result.err.kind = "UvcTransfer"
                     /\ result.err.cause = i
                     /\ result.err.msg =
                            (IF IsSetCur(T[i], 2) THEN "trigger SET_CUR failed"
                             ELSE IF IsSetCur(T[i], 1) THEN "payload SET_CUR failed"
                             ELSE IF IsGetLen(T[i], 1) THEN "GET_LEN failed"
                             ELSE "GET_CUR failed")

C5_Witness ==
    /\ ProbeCall
    /\ env.fail = {3, 5}
    /\ Len(T) = 5 /\ ~T[3].ok /\ IsGetLen(T[4], 1) /\ ~T[5].ok
    /\ ~result.ok /\ result.err.cause = 5

\* the byte sum of a frame, modulo 256
ByteSum(f) == WrappingSumRange(f, 1, Len(f))

\* the calls that build a frame and return it
FrameCall == op.name \in {"at_frame", "at_probe06", "at_probe07"}

\* C8: the bytes of every frame built by send_at_command, read_at_command and
\* read_at_command_family07 sum to 0 modulo 256, for every command id, input,
\* sub-command and parameter byte.
C8_FrameSumsToZero ==
    /\ FrameCall => ByteSum(result.val) = 0
    /\ ProbeCall => \A i \in DOMAIN T : IsSetCur(T[i], 1) => ByteSum(T[i].data) = 0

C8_Witness ==
    /\ op.name = "at_frame" /\ op.arg[1] = U32(65535, 65535)
    /\ Len(op.arg[2]) = 3
    /\ result.val[Len(result.val)] # 0

\* C9: the frame send_at_command builds for command id c and input I is
\* a1, L, 00, 00, the four little-endian bytes of c, I, checksum, with
\* L = (4 + len(I) + 2) & 0x7f; it is len(I) + 9 bytes long and L wraps
\* modulo 128 once len(I) >= 122.
C9_FrameLayout ==
    op.name = "at_frame" =>
        LET c == op.arg[1]
            I == op.arg[2]
            f == result.val
            body == <<161, (Len(I) + 6) % 128, 0, 0,
                      c.lo % 256, c.lo \div 256, c.hi % 256, c.hi \div 256>> \o I
        IN  /\ Len(f) = Len(I) + 9
            /\ SubSeq(f, 1, Len(f) - 1) = body
            /\ (ByteSum(body) + f[Len(f)]) % 256 = 0
            /\ Len(I) >= 122 => f[2] = Len(I) - 122

C9_Witness ==
    /\ op.name = "at_frame"
    /\ Len(op.arg[2]) = 123
    /\ result.val[2] = 1

\* every transfer of the call completed, and every GET_LEN brought its 2 bytes
NoTransferFailed == \A i \in DOMAIN T : T[i].ok /\ ~ShortGetLen(T[i])

\* C10: when no transfer fails a probe issues exactly SET_CUR trigger, SET_CUR
\* value, GET_LEN trigger, GET_CUR trigger, GET_LEN value, GET_CUR value, in
\* this order, and it reports completion only after the final value read.
C10_ProbeOrder ==
    ProbeCall =>
        /\ NoTransferFailed =>
              /\ Len(T) = 6
              /\ IsSetCur(T[1], 2)
              /\ IsSetCur(T[2], 1)
              /\ IsGetLen(T[3], 2)
              /\ IsGetCur(T[4], 2)
              /\ IsGetLen(T[5], 1)
              /\ IsGetCur(T[6], 1)
              /\ result.ok
        /\ result.ok =>
              /\ Len(T) >= 1
              /\ IsGetCur(T[Len(T)], 1) /\ T[Len(T)].ok
              /\ result.val = T[Len(T)].ret

C10_Witness ==
    /\ ProbeCall /\ op.name = "set_usb_speed"
    /\ env.fail = {} /\ env.short = 0
    /\ Len(T) = 6 /\ result.ok

\* C4 as stated: for every 4K S setting family with a single-byte status
\* decoder and every value v, the family's decoder applied to the byte that
\* payload_4ks puts at packet offset 6 yields Known(v).
C4_RoundTrip4ks ==
    op.name = "payload_4ks" =>
        decode_4ks(op.arg[1], result.val[7]) = Known(op.arg[2])

\* binary-coded decimal: the tens in the high nibble, the units in the low
BcdValue(b) == (b \div 16) * 10 + (b % 16)

\* C7 as stated: for a response of at least 6 bytes
\* format_firmware_version_4ks presents a parsed version only if the month
\* and day bytes, read as binary-coded decimal, are a month in 1..12 and a
\* day in 1..31; for a month over 12 or a day over 31 it gives the raw-bytes
\* fallback; it never fails.
C7_ParsedOnlyForBcdDate ==
    (op.name = "format_firmware_version_4ks" /\ Len(op.arg) >= 6) =>
        LET mm == BcdValue(op.arg[5])
            dd == BcdValue(op.arg[6])
        IN  /\ result.ok
            /\ result.val.kind = "version" => (mm \in 1..12 /\ dd \in 1..31)
            /\ (mm > 12 \/ dd > 31) => result.val.kind = "raw"

\* C6 as stated: every GET_CUR of the Extension-Unit value selector, in a
\* probe and in the 4K X status read alike, follows a GET_LEN of that
\* selector with no write and no other value read in between, and asks for
\* exactly the length that GET_LEN returned.
C6_ValueReadFollowsGetLen ==
    \A i \in DOMAIN T :
        IsGetCur(T[i], 1) =>
            \E j \in 1..(i - 1) :
                /\ IsGetLen(T[j], 1) /\ T[j].ok /\ Len(T[j].ret) = 2
                /\ T[i].len = T[j].ret[1] + 256 * T[j].ret[2]
                /\ \A k \in (j + 1)..(i - 1) :
                       T[k].dir # "out" /\ ~IsGetCur(T[k], 1)

\* C11: set_uvc_setting first writes the 2-byte little-endian length of the
\* payload to the trigger selector, then the whole payload to the value
\* selector; a failed trigger write leaves the payload unwritten, and the
\* failure of either write is the error of the operation.
C11_TriggerThenPayload ==
    (model = "4KX" /\ op.name = "set_uvc_setting") =>
        /\ Len(T) >= 1
        /\ IsSetCur(T[1], 2)
        /\ T[1].data = <<Len(op.arg) % 256, Len(op.arg) \div 256>>
        /\ ~T[1].ok =>
              /\ Len(T) = 1
              /\ ~result.ok
              /\ result.err.msg = "trigger SET_CUR failed" /\ result.err.cause = 1
        /\ T[1].ok =>
              /\ Len(T) = 2
              /\ IsSetCur(T[2], 1) /\ T[2].data = op.arg
              /\ result.ok <=> T[2].ok
              /\ ~T[2].ok =>
                    result.err.msg = "payload SET_CUR failed" /\ result.err.cause = 2

C11_Witness ==
    /\ model = "4KX" /\ op.name = "set_uvc_setting"
    /\ Len(op.arg) = 300 /\ env.fail = {1}
    /\ T[1].data = <<44, 1>> /\ ~result.ok

\* the value byte settings.rs assigns to each 4K S setting value
ValueByte4ks(f, v) ==
    CASE f = "hdr" -> IF v = "On" THEN 1 ELSE 0
      [] f = "color_range" -> IF v = "Auto" THEN 0 ELSE IF v = "Expand" THEN 1 ELSE 2
      [] f = "edid_mode" -> IF v = "Merged" THEN 0 ELSE IF v = "Display" THEN 1 ELSE 2
      [] f = "audio_input" -> IF v = "Embedded" THEN 0 ELSE 1
      [] f = "video_scaler" -> IF v = "On" THEN 1 ELSE 0

\* the sub-command id of each 4K S setting
SubCmd4ks(f) ==
    CASE f = "hdr" -> 10
      [] f = "color_range" -> 11
      [] f = "edid_mode" -> 18
      [] f = "audio_input" -> 8
      [] f = "video_scaler" -> 25

\* C12: every packet payload_4ks produces is 255 bytes: the write header
\* 06 06 06 55 02, the sub-command id of the setting, the value byte, and
\* zeros from offset 7 to 254.
C12_Payload4ksLayout ==
    op.name = "payload_4ks" =>
        LET pkt == result.val
        IN  /\ Len(pkt) = 255
            /\ SubSeq(pkt, 1, 5) = <<6, 6, 6, 85, 2>>
            /\ pkt[6] = SubCmd4ks(op.arg[1])
            /\ pkt[7] = ValueByte4ks(op.arg[1], op.arg[2])
            /\ \A i \in 8..255 : pkt[i] = 0

C12_Witness ==
    /\ op.name = "payload_4ks" /\ op.arg = <<"color_range", "Shrink">>
    /\ result.val[6] = 11 /\ result.val[7] = 2

\* C13: send_hid_packet with a packet that is not exactly 255 bytes long
\* returns the packet-size validation error and issues no transfer; every
\* SET_REPORT that goes out carries 255 bytes.
C13_OnlyFullPacketsSent ==
    /\ (op.name = "send_hid_packet" /\ Len(op.arg) # 255) =>
          /\ ~result.ok
          /\ result.err.msg = "HID packet must be exactly 255 bytes"
          /\ log = <<>>
    /\ \A i \in DOMAIN T : IsSetReport(T[i]) => Len(T[i].data) = 255

C13_Witness ==
    /\ op.name = "send_hid_packet" /\ Len(op.arg) = 256
    /\ ~result.ok /\ log = <<>>

\* C14: when both transfers of read_hid_data succeed and GET_REPORT returns n
\* bytes, 0 <= n <= 255, the result is the n - 1 bytes after the leading
\* report-identifier byte when n > 1, and the empty sequence, not an error,
\* when n <= 1.
C14_DataAfterReportId ==
    (op.name = "read_hid_data" /\ Len(T) = 2 /\ T[1].ok /\ T[2].ok) =>
        LET n == Len(T[2].ret)
        IN  /\ n \in 0..255
            /\ result.ok
            /\ n > 1 => result.val = [i \in 1..(n - 1) |-> T[2].ret[i + 1]]
            /\ n <= 1 => result.val = <<>>

C14_Witness ==
    /\ op.name = "read_hid_data" /\ env.fail = {}
    /\ Len(T) = 2 /\ Len(T[2].ret) = 255
    /\ result.ok /\ Len(result.val) = 254 /\ result.val[254] = 255

\* the bytes each 4K S status decoder maps to a value
ValueTable4ks(f) ==
    CASE f = "hdr" -> {0, 1}
      [] f = "color_range" -> {0, 1, 2}
      [] f = "edid_mode" -> {0, 1, 2}
      [] f = "audio_input" -> {0, 1, 3}
      [] f = "video_scaler" -> {0, 1}

\* C15: each 4K S single-byte status decoder, on every byte b of 0..255,
\* gives Known(v) only for a byte of its value table and Unknown(b), with the
\* same byte, for every other byte; never an error, never a default value.
C15_UnmappedByteIsUnknown ==
    op.name = "decode_4ks" =>
        LET f == op.arg[1]
            b == op.arg[2]
        IN  /\ result.ok
            /\ b \in ValueTable4ks(f) =>
                  /\ result.val.tag = "Known"
                  /\ result.val.val \in HidFamilyValues(f)
            /\ b \notin ValueTable4ks(f) =>
                  result.val = [tag |-> "Unknown", byte |-> b]

C15_Witness ==
    /\ op.name = "decode_4ks" /\ op.arg = <<"color_range", 3>>
    /\ result.val = [tag |-> "Unknown", byte |-> 3]

\* whether a response has the layout of a 4K X family: long enough, first
\* byte a1, second byte the family tag, and byte 4 the type byte where the
\* family has one (typeByte < 0: none)
MatchesLayout(d, minLen, family, typeByte) ==
    /\ Len(d) >= minLen
    /\ d[1] = 161
    /\ d[2] = family
    /\ typeByte >= 0 => d[5] = typeByte

MatchesFamily(f, d) ==
    CASE f = "color_range" -> MatchesLayout(d, 9, 6, -1)
      [] f = "hdr" -> MatchesLayout(d, 10, 7, 31)
      [] f = "edid_range" -> MatchesLayout(d, 11, 8, 124)
      [] f = "edid_source" -> MatchesLayout(d, 13, 10, -1)

C18_UnsupportedFieldsAreNone ==
    (op.name = "read_status" /\ result.ok) =>
        IF model = "4KS"
        THEN /\ result.val.usb_speed = [tag |-> "None"]
             /\ result.val.edid_range_policy = [tag |-> "None"]
             /\ result.val.custom_edid = [tag |-> "None"]
        ELSE /\ result.val.audio_input = [tag |-> "None"]
             /\ result.val.video_scaler = [tag |-> "None"]

C18_Witness ==
    /\ op.name = "read_status" /\ model = "4KS" /\ env.fail = {}
    /\ env.dev.hidResp = <<6, 1>>
    /\ result.ok
    /\ result.val.edid_source.tag = "Some"
    /\ result.val.custom_edid.tag = "None"

\* C19 as stated: read_status and read_firmware_version never fail because
\* response bytes could not be decoded: whatever contents and lengths the
\* successful transfers return, the call returns Ok.
C19_DecodingNeverFails ==
    (/\ op.name \in {"read_status", "read_firmware_version"}
     /\ \A i \in DOMAIN T : T[i].ok)
        => result.ok

\* C20: every 4K X setting payload of the 0x07 family (HDR tone mapping) and
\* of the 0x08 family (EDID range policy) ends in a checksum byte that makes
\* the bytes of the payload sum to 0 modulo 256.
C20_SettingPayloadSumsToZero ==
    /\ (op.name = "payload_4kx" /\ op.arg[1] \in {"hdr", "edid_range"}) =>
          /\ result.val[2] = (IF op.arg[1] = "hdr" THEN 7 ELSE 8)
          /\ ByteSum(result.val) = 0
    /\ (model = "4KX" /\ op.name \in {"set_hdr_mapping", "set_hdmi_range"}) =>
          \A i \in DOMAIN T : IsSetCur(T[i], 1) => ByteSum(T[i].data) = 0

C20_Witness ==
    /\ op.name = "payload_4kx" /\ op.arg = <<"hdr", "On">>
    /\ result.val[2] = 7 /\ result.val[10] = 56

\* the public operations of a session: the setters, the AT commands and the
\* status reads
PublicCall ==
    op.name \in {"set_hdmi_range", "set_edid_source", "set_hdr_mapping",
                 "set_custom_edid", "set_audio_input", "set_video_scaler",
                 "set_usb_speed", "send_at_command", "read_at_command",
                 "read_at_command_family07", "read_firmware_version",
                 "read_status"}

\* C21: every payload an operation on a 4K X session writes to the value
\* selector of the Extension Unit begins with the byte 0xa1: the payload of
\* every setting value, and every frame built for an AT command or a probe.
C21_PayloadStartsWithA1 ==
    /\ (model = "4KX" /\ PublicCall) =>
          \A i \in DOMAIN T :
              IsSetCur(T[i], 1) => Len(T[i].data) > 0 /\ T[i].data[1] = 161
    /\ (op.name = "payload_4kx" \/ FrameCall) => result.val[1] = 161

C21_Witness ==
    /\ model = "4KX" /\ op.name = "read_status"
    /\ Cardinality({i \in DOMAIN T : IsSetCur(T[i], 1) /\ T[i].data[1] = 161}) = 2
    /\ result.ok

\* the operation of the current call, run again from an empty log in the
\* environment e
Invoke(e) ==
    CASE op.name = "set_hdmi_range" -> set_hdmi_range(model, e, <<>>, op.arg)
      [] op.name = "set_edid_source" -> set_edid_source(model, e, <<>>, op.arg)
      [] op.name = "set_hdr_mapping" -> set_hdr_mapping(model, e, <<>>, op.arg)
      [] op.name = "set_custom_edid" -> set_custom_edid(model, e, <<>>, op.arg)
      [] op.name = "set_audio_input" -> set_audio_input(model, e, <<>>, op.arg)
      [] op.name = "set_video_scaler" -> set_video_scaler(model, e, <<>>, op.arg)
      [] op.name = "set_usb_speed" -> set_usb_speed(model, e, <<>>, op.arg)
      [] op.name = "send_at_command" ->
            send_at_command(model, e, <<>>, op.arg[1], op.arg[2])
      [] op.name = "read_at_command" -> read_at_command(model, e, <<>>, op.arg[1])
      [] op.name = "read_at_command_family07" ->
            read_at_command_family07(model, e, <<>>, op.arg[1], op.arg[2])
      [] op.name = "read_firmware_version" -> read_firmware_version(model, e, <<>>)
      [] op.name = "read_status" -> read_status(model, e, <<>>)
      [] op.name = "send_hid_two_packet" ->
            send_hid_two_packet(e, <<>>, op.arg[1], op.arg[2])
      [] op.name = "send_hid_packet" -> send_hid_packet(e, <<>>, op.arg)
      [] op.name = "set_uvc_setting" -> set_uvc_setting(e, <<>>, op.arg)
      [] op.name = "read_hid_data" ->
            read_hid_data(e, <<>>, op.arg[1], op.arg[2], op.arg[3])

\* the calls that may issue transfers
TransferCall ==
    \/ PublicCall
    \/ op.name \in {"send_hid_two_packet", "send_hid_packet", "set_uvc_setting",
                    "read_hid_data"}

\* a transfer as it was issued, without its outcome
Step(x) ==
    [dir |-> x.dir, rt |-> x.rt, rq |-> x.rq, wValue |-> x.wValue,
     wIndex |-> x.wIndex, data |-> x.data, len |-> x.len]

\* the steps of the call when no transfer fails and no read comes up short:
\* the transfer sequence of the operation. The requests of the 4K S do not
\* depend on the bytes of the responses, which are left empty here so that
\* read_firmware_version does not index past a 5-byte response.
Nominal ==
    Transfers(Invoke([env EXCEPT !.fail = {}, !.short = 0,
                                 !.dev.hidResp = <<>>]).log)

\* a[i..] can be matched, in order and each step used once, within b[j..]
RECURSIVE Embeds(_, _, _, _)
Embeds(a, i, b, j) ==
    IF i > Len(a) THEN TRUE
    ELSE IF j > Len(b) THEN FALSE
    ELSE IF Step(a[i]) = Step(b[j]) THEN Embeds(a, i + 1, b, j + 1)
    ELSE Embeds(a, i, b, j + 1)

\* C22: no operation retries. The transfers of a call are, in order, steps
\* of the operation's transfer sequence, each step issued at most once: a
\* transfer that failed is not issued a second time.
C22_NoRetry ==
    TransferCall => Embeds(T, 1, Nominal, 1)

C22_Witness ==
    /\ model = "4KX" /\ op.name = "set_usb_speed"
    /\ env.fail = {3, 5}
    /\ Len(T) = 5 /\ ~T[3].ok /\ ~T[5].ok
    /\ Len(Nominal) = 6

\* the run was asked for the usage text: no argument, or --help or -h anywhere
HelpAsked ==
    Len(op.arg) = 0 \/ \E k \in DOMAIN op.arg : op.arg[k] \in {"--help", "-h"}

\* C23: invoked with no arguments, or with --help or -h anywhere among its
\* arguments, the command-line tool prints the usage text and exits
\* successfully; it does not open the device and issues no transfer, whatever
\* the other arguments are.
C23_HelpTouchesNothing ==
    (op.name = "main" /\ HelpAsked) =>
        /\ result.ok
        /\ result.val.usage
        /\ ~result.val.opened
        /\ ~result.val.status
        /\ result.val.calls = <<>>
        /\ log = <<>>

C23_Witness ==
    /\ op.name = "main"
    /\ op.arg = <<"--hdmi-range", "Auto", "--status", "-h">>
    /\ result.ok /\ result.val.usage /\ ~result.val.opened

\* the data read_hid_data hands back for a completed GET_REPORT x: what
\* follows the report-identifier byte
HidData(x) == IF Len(x.ret) > 1 THEN SubSeq(x.ret, 2, Len(x.ret)) ELSE <<>>

\* C24 as stated: read_firmware_version on a 4K S decodes the response only
\* when it holds the bytes at offsets 3, 4 and 5; for a response of 0 to 5
\* bytes it returns the 'Unexpected response' text and reads nothing past
\* the end of the response.
C24_ShortFirmwareIsUnexpected ==
    (/\ model = "4KS" /\ op.name = "read_firmware_version"
     /\ Len(T) = 2 /\ T[1].ok /\ T[2].ok)
        => IF Len(HidData(T[2])) <= 5
           THEN result.ok /\ result.val.kind = "unexpected"
           ELSE result.ok /\ result.val.kind \in {"unknown", "version", "raw"}

\* C25: for every 4K X setting that has a response decoder, the decoder
\* applied to the exact payload_4kx bytes of a value v yields Known(v) (HDR
\* tone mapping, EDID range policy, EDID source); the custom EDID payloads
\* decode to Off and to On with preset index 1.
C25_RoundTrip4kx ==
    op.name = "payload_4kx" =>
        LET f == op.arg[1]
            v == op.arg[2]
            p == result.val
        IN  CASE f = "hdr" -> decode_uvc_hdr(p) = Some(Known(v))
              [] f = "edid_range" -> decode_uvc_edid_range(p) = Some(Known(v))
              [] f = "edid_source" ->
                    decode_uvc_edid_source(p) = <<Some(Known(v)), None>>
              [] f = "custom_edid" ->
                    decode_uvc_edid_source(p) =
                        <<None,
                          Some(IF v = "Off" THEN [tag |-> "Off"]
                               ELSE [tag |-> "On", preset_index |-> 1])>>

C25_Witness ==
    /\ op.name = "payload_4kx" /\ op.arg = <<"edid_range", "Shrink">>
    /\ result.val[10] = 4
    /\ decode_uvc_edid_range(result.val) = Some(Known("Shrink"))

\* the fields of a 4K S status read in the order they are read: the
\* sub-command of the request, the field of the snapshot, its decoder
HidFieldOrder ==
    <<SUBCMD_FIRMWARE_VERSION, SUBCMD_HDR_TONEMAPPING, SUBCMD_COLOR_RANGE,
      SUBCMD_EDID_MODE, SUBCMD_AUDIO_INPUT, SUBCMD_VIDEO_SCALER>>
HidFieldNames ==
    <<"firmware_version", "hdr_tone_mapping", "hdmi_color_range", "edid_source",
      "audio_input", "video_scaler">>
HidFieldDecoders ==
    <<"", "hdr", "color_range", "edid_mode", "audio_input", "video_scaler">>

\* position in T of the j-th host-to-device transfer of the call
RequestAt(j) ==
    CHOOSE i \in DOMAIN T :
        /\ T[i].dir = "out"
        /\ Cardinality({k \in 1..i : T[k].dir = "out"}) = j

\* what field j of a 4K S status read must hold, from its own two transfers
FieldOf4ks(j) ==
    LET r == RequestAt(j)
    IN  IF ~T[r].ok THEN None
        ELSE IF ~T[r + 1].ok \/ HidData(T[r + 1]) = <<>> THEN None
        ELSE Some(decode_4ks(HidFieldDecoders[j], HidData(T[r + 1])[1]))

\* transfer x failed; with polls = FALSE the failures of the trigger-status
\* poll, whose result the probe drops, do not count
Failed(x, polls) == ~x.ok /\ (polls \/ ~IsPollStep(x))

\* position in T of the trigger write that starts the second probe of a
\* 4K X status read (the USB-speed read)
SecondProbe == CHOOSE i \in DOMAIN T : i > 1 /\ IsSetCur(T[i], 2)

\* read_status under faults: each field depends on its own transfers only,
\* the fields are read in the fixed order, and the call returns Ok
StatusFaultsStayLocal(polls) ==
    /\ (op.name = "read_status" /\ (\E i \in DOMAIN T : ~T[i].ok)) => result.ok
    /\ (op.name = "read_status" /\ model = "4KS" /\ result.ok) =>
          /\ Cardinality({i \in DOMAIN T : T[i].dir = "out"}) = 6
          /\ [j \in 1..6 |-> T[RequestAt(j)].data[3]] = HidFieldOrder
          /\ \A j \in 2..6 : result.val[HidFieldNames[j]] = FieldOf4ks(j)
          /\ (~T[1].ok \/ ~T[2].ok) => result.val.firmware_version.kind = "failed"
    /\ (op.name = "read_status" /\ model = "4KX") =>
          LET n == Len(T)
              Typed(k, f) == IF T[k].ok THEN decode_uvc(f, T[k].ret) ELSE None
              Pair(k) == IF T[k].ok THEN decode_uvc_edid_source(T[k].ret)
                         ELSE <<None, None>>
          IN  /\ result.ok
              /\ n >= 6
              /\ \A k \in (n - 3)..n : IsGetCur(T[k], 1)
              /\ <<T[n - 3].len, T[n - 2].len, T[n - 1].len, T[n].len>> = <<13, 9, 10, 11>>
              /\ <<result.val.edid_source, result.val.custom_edid>> = Pair(n - 3)
              /\ result.val.hdmi_color_range = Typed(n - 2, "color_range")
              /\ result.val.hdr_tone_mapping = Typed(n - 1, "hdr")
              /\ result.val.edid_range_policy = Typed(n, "edid_range")
              /\ (\E i \in 1..(SecondProbe - 1) : Failed(T[i], polls))
                    => result.val.firmware_version.kind = "failed"
              /\ (\E i \in SecondProbe..(n - 4) : Failed(T[i], polls))
                    => result.val.usb_speed = None
    /\ (op.name = "read_firmware_version"
        /\ \E i \in DOMAIN T : Failed(T[i], polls))
          => result.ok /\ result.val.kind = "failed"

\* C26 as stated: during read_status a transport failure or an empty response
\* while reading one field makes only that field None, the other fields are
\* still read in the fixed order and the call returns Ok; any transport
\* failure while reading the firmware version gives Ok with the 'Failed to
\* read' text.
C26_AnyFailureBlanksItsField == StatusFaultsStayLocal(TRUE)

\* C26, amended: the same, for every transport failure except one inside the
\* trigger-status poll of a 4K X probe: the probe drops the poll's result, so
\* the field (firmware version, USB speed) is read all the same.
C26_FailureBlanksOnlyItsField == StatusFaultsStayLocal(FALSE)

C26_Witness ==
    /\ op.name = "read_status" /\ model = "4KS"
    /\ env.fail = {5} /\ env.dev.hidResp = <<6, 1>>
    /\ Len(T) = 11 /\ ~T[5].ok
    /\ result.ok
    /\ result.val.hdmi_color_range = None
    /\ result.val.hdr_tone_mapping.tag = "Some"
    /\ result.val.edid_source.tag = "Some"
    /\ result.val.video_scaler.tag = "Some"

\* a GET_REPORT of the input report on the HID interface
IsGetReport(x) ==
    /\ x.dir = "in" /\ x.rt = 161 /\ x.rq = 1
    /\ x.wValue = 262 /\ x.wIndex = 7

\* C27: read_hid_data submits the 255-byte request 06, cmd, sub_cmd,
\* data_len, zeros as a SET_REPORT, waits the 10 ms read delay, then issues
\* one GET_REPORT of 255 bytes whose buffer has the report id 06 in byte 0;
\* if the request write fails no GET_REPORT is issued and the error is
\* returned.
C27_RequestDelayRead ==
    op.name = "read_hid_data" =>
        LET request == [i \in 1..255 |->
                           IF i = 1 THEN 6
                           ELSE IF i <= 4 THEN op.arg[i - 1]
                           ELSE 0]
        IN  /\ Len(log) >= 1
            /\ IsSetReport(log[1]) /\ log[1].data = request
            /\ IF ~log[1].ok
               THEN /\ Len(log) = 1
                    /\ ~result.ok
                    /\ result.err.msg = "Failed to send HID read request"
               ELSE /\ Len(log) = 3
                    /\ log[2] = Sleep(10)
                    /\ IsGetReport(log[3])
                    /\ log[3].len = 255
                    /\ log[3].data = [i \in 1..255 |-> IF i = 1 THEN 6 ELSE 0]
                    /\ result.ok <=> log[3].ok

C27_Witness ==
    /\ op.name = "read_hid_data" /\ op.arg = <<85, 8, 1>>
    /\ env.fail = {} /\ env.dev.hidResp = <<6, 1>>
    /\ Len(log) = 3 /\ log[2].dir = "sleep" /\ log[3].ret = <<6, 1>>
    /\ result = Ok(<<1>>)

\* a transfer to the Extension Unit: entity 4 on interface 0, selector 1 or 2
IsXuTransfer(x) ==
    \E sel \in {1, 2} : IsSetCur(x, sel) \/ IsGetLen(x, sel) \/ IsGetCur(x, sel)

\* a HID report transfer on interface 7
IsHidTransfer(x) == IsSetReport(x) \/ IsGetReport(x)

\* the transfers of the current call all went to the surface of the variant
OwnSurfaceOnly ==
    PublicCall =>
        \A i \in DOMAIN T :
            IF model = "4KX"
            THEN IsXuTransfer(T[i]) /\ ~IsHidTransfer(T[i])
            ELSE IsHidTransfer(T[i]) /\ ~IsXuTransfer(T[i])

\* C28: over any sequence of public operations on a session, every transfer
\* goes to the control surface of the attached variant: Extension-Unit
\* transfers (entity 4, interface 0) and no HID report transfer on a 4K X,
\* HID report transfers on interface 7 and no Extension-Unit transfer on a
\* 4K S; and the variant never changes during the session.
C28_SurfaceIsolation == []OwnSurfaceOnly /\ [][model' = model]_vars

C28_Witness ==
    /\ model = "4KS" /\ op.name = "read_status" /\ result.ok
    /\ Len(T) = 12
    /\ \A i \in DOMAIN T : T[i].wIndex = 7

\* f is the frame that the framing of send_at_command builds for the command
\* id in bytes 4..7 of f and the input in bytes 8..len-2 of f
WellFormedFrame(f) ==
    /\ Len(f) >= 9
    /\ f = at_frame(U32(f[7] + 256 * f[8], f[5] + 256 * f[6]),
                    SubSeq(f, 9, Len(f) - 1))

\* C29: every Extension-Unit payload the program sends is a well-formed AT
\* frame: each 4K X setting payload (families 0x07, 0x08, 0x0a) and each
\* probe built by read_at_command and read_at_command_family07 equals, byte
\* for byte, the frame send_at_command's framing builds for the command id
\* and input it carries (second byte (len - 3) & 0x7f, last byte the
\* two's-complement checksum).
C29_PayloadsAreAtFrames ==
    /\ op.name \in {"payload_4kx", "at_probe06", "at_probe07"} =>
          /\ WellFormedFrame(result.val)
          /\ result.val[2] = (Len(result.val) - 3) % 128
    /\ (model = "4KX" /\ PublicCall) =>
          \A i \in DOMAIN T : IsSetCur(T[i], 1) => WellFormedFrame(T[i].data)

C29_Witness ==
    /\ op.name = "payload_4kx" /\ op.arg = <<"custom_edid", "On">>
    /\ result.val = at_frame(U32(0, 84), <<0, 1, 128, 0>>)
    /\ result.val[13] = 128

\* the value of pair j of the command line as its option parses it: None
\* for an invalid value and for an unknown option
ParsedValue(args, j) ==
    CASE args[2 * j - 1] = "--hdmi-range" -> HdmiColorRange_from_str(args[2 * j])
      [] args[2 * j - 1] = "--custom-edid" -> CustomEdidMode_from_str(args[2 * j])
      [] OTHER -> None

\* pair j of the command line cannot be applied: its value is missing, or
\* its option is unknown, or its value is invalid
BadPair(args, j) ==
    \/ 2 * j > Len(args)
    \/ ParsedValue(args, j) = None

\* C30: the command-line tool applies the settings strictly in command-line
\* order, one (option, value) pair at a time. At the first pair whose option
\* is unknown, whose value is missing or invalid, or whose device operation
\* fails, it stops with a non-zero exit, having applied every earlier pair
\* and attempted none of the later ones. With --status present no setting is
\* applied at all.
C30_SettingsInOrder ==
    (op.name = "main" /\ ~HelpAsked /\ env.present) =>
        LET args == op.arg
            calls == result.val.calls
            k == Len(calls)
        IN  IF \E i \in DOMAIN args : args[i] = "--status"
            THEN /\ calls = <<>>
                 /\ result.val.status
                 /\ \A i \in DOMAIN T : T[i].dir = "in"
            ELSE /\ ~result.val.status
                 /\ 2 * k <= Len(args)
                 /\ \A j \in 1..k :
                        /\ calls[j].option = args[2 * j - 1]
                        /\ ParsedValue(args, j) = Some(calls[j].value)
                        /\ j < k => calls[j].ok
                 /\ result.ok <=> (2 * k = Len(args) /\ (k = 0 \/ calls[k].ok))
                 /\ ~result.ok =>
                        \/ k >= 1 /\ ~calls[k].ok
                        \/ 2 * k < Len(args) /\ BadPair(args, k + 1)
                 /\ Len(T) <= 2 * k
                 /\ Cardinality({i \in DOMAIN log : log[i] = Sleep(100)})
                        = Cardinality({j \in 1..k : calls[j].ok})

C30_Witness ==
    /\ op.name = "main" /\ model = "4KX"
    /\ op.arg = <<"--hdmi-range", "Auto", "--custom-edid", "ON">>
    /\ env.present /\ env.fail = {2}
    /\ ~result.ok
    /\ Len(result.val.calls) = 1 /\ ~result.val.calls[1].ok
    /\ Len(T) = 2

====
